---- MODULE Spec2Model ----
(***************************************************************************)
(* Model of the vsm_generator content pipeline (crates/vsm_generator):     *)
(*   - ContentVariables::apply, the {{key}} / {{key:value}} substitution   *)
(*     pass over a byte buffer (content/content_variables.rs);             *)
(*   - create_html_file / process_file, the rewrite of one page            *)
(*     (content.rs);                                                       *)
(*   - process_content, the two waves of tasks around the md_post_list     *)
(*     OnceLock (content.rs, main.rs).                                     *)
(* Strings are sequences of one-character strings; positions are 0-based   *)
(* byte offsets as in the Rust source.                                     *)
(***************************************************************************)
EXTENDS Integers, Sequences, FiniteSets, TLC

VARIABLES
    ap,        \* state of one ContentVariables::apply call: data, range, variables, result
    apIn,      \* what that call was started with: data, variables, result, cell; the
               \* segments the first buffer was built from; the number of the pass
    apOp,      \* what the iterations of apply's while loop did so far, oldest first
    pf,        \* create_html_file of one page: reader buffer and position, variables,
               \* ContentResult, last_start_position, last_edited_position
    pfIn,      \* what process_file was called with: the template page and the variables
    pfOut,     \* what process_file returned and which output files it wrote
    pc,                   \* where process_content (and then main) is
    next_file,            \* the position of the for loop that is spawning tasks
    tasks_a,              \* the JoinSet of analyze_file tasks, by file
    preliminary_outputs,  \* Vec<Arc<PreliminaryAnalysisOutput>>, as the files they are of
    content_result,       \* the ContentResult of the run
    md_post_list,         \* Context.md_post_list, the OnceLock
    tasks_b,              \* the JoinSet of process_file tasks, by file
    log,                  \* what main reports when process_content has returned
    md,        \* one function of the markdown analysis at work: its locals and output
    mdIn       \* what that function was called with

applyVars == <<ap, apIn, apOp>>
rewriteVars == <<pf, pfIn, pfOut>>
contentVars == <<pc, next_file, tasks_a, preliminary_outputs, content_result,
                 md_post_list, tasks_b, log>>
mdVars == <<md, mdIn>>
vars == <<ap, apIn, apOp, pf, pfIn, pfOut, pc, next_file, tasks_a, preliminary_outputs,
          content_result, md_post_list, tasks_b, log, md, mdIn>>

\* the values the variables of an operation have in a specification without it
Idle == [status |-> "idle"]
ApplyIdle == ap = Idle /\ apIn = Idle /\ apOp = <<>>
RewriteIdle == pf = Idle /\ pfIn = Idle /\ pfOut = Idle
ContentIdle ==
    /\ pc = "idle" /\ next_file = 0 /\ tasks_a = Idle /\ preliminary_outputs = <<>>
    /\ content_result = Idle /\ md_post_list = Idle /\ tasks_b = Idle /\ log = ""
MarkdownIdle == md = Idle /\ mdIn = Idle

----------------------------------------------------------------------------
(* Bounds of the model *)

MaxSegs == 3        \* number of segments an input buffer of apply is built from
MaxPasses == 2      \* number of apply passes run one after the other over one buffer
NumFiles == 3       \* number of content files collect_files_for_processing returns
MaxIncluded == 6    \* number of template inclusions followed in one create_html_file

----------------------------------------------------------------------------
(* String helpers: str slicing, str::find, String::replace_range *)

\* s[a..b] of Rust: bytes a (inclusive) to b (exclusive), 0-based
Slice(s, a, b) == SubSeq(s, a + 1, b)

\* s[from..to].find(sub): offset of the first occurrence relative to from, -1 for None
Find(sub, s, from, to) ==
    LET hits == {i \in 0..(to - from - Len(sub)) :
                    Slice(s, from + i, from + i + Len(sub)) = sub}
    IN IF hits = {} THEN -1
       ELSE CHOOSE i \in hits : \A j \in hits : i <= j

\* s.replace_range(a..b, r)
ReplaceRange(s, a, b, r) == Slice(s, 0, a) \o r \o Slice(s, b, Len(s))

RECURSIVE Concat(_)
Concat(ss) == IF ss = <<>> THEN <<>> ELSE Head(ss) \o Concat(Tail(ss))

LB == <<"{", "{">>
RB == <<"}", "}">>
Colon == <<":">>
MdPostListKey == <<"m", "d", "_", "p", "o", "s", "t", "_", "l", "i", "s", "t">>

----------------------------------------------------------------------------
(* OnceLock<String>: Context.md_post_list *)

OnceLockNew == [set |-> FALSE, value |-> <<>>]

\* OnceLock::set: stores the value if the cell is empty, Err(value) otherwise
OnceLockSet(cell, v) ==
    IF cell.set THEN [cell |-> cell, ok |-> FALSE]
    ELSE [cell |-> [set |-> TRUE, value |-> v], ok |-> TRUE]

----------------------------------------------------------------------------
(* ContentResult and the errors apply pushes *)

NoPosition == -1

ContentResultNew == [errors |-> <<>>, warnings |-> <<>>]

PushError(result, e) == [result EXCEPT !.errors = Append(@, e)]

\* anyhow!("Unable to find end of variable. In position {}.", range.start)
ErrNoEnd(pos) ==
    [msg |-> "Unable to find end of variable. In position", key |-> <<>>, position |-> pos]

\* anyhow!("Unable to find variable with key '{}'", key): the key is the only argument
ErrUnknownKey(key) ==
    [msg |-> "Unable to find variable with key", key |-> key, position |-> NoPosition]

----------------------------------------------------------------------------
(* ContentVariables: HashMap<String, String> as a function on its key set *)

\* mutant: an insert that keeps the value a key already has (entry().or_insert)
VarsInsertKeepOld(variables, k, v) == variables @@ (k :> v)

\* HashMap::insert: the new value replaces the old one
VarsInsert(variables, k, v) == (k :> v) @@ variables

VarsHas(variables, k) == k \in DOMAIN variables

----------------------------------------------------------------------------
(* ContentVariables::apply, one iteration of its while loop at a time *)

\* mutant: the search for the opening of a marker looks for one brace
FindOpenSingleBrace(data, from, to) == Find(<<"{">>, data, from, to)

\* line 30: data[range.start..range.end].find("{{")
FindOpen(data, from, to) == Find(LB, data, from, to)

\* the inner while loop of an assignment: the closing braces move right once for
\* every "{{" found in the value; -1 when a closing "}}" is missing
RECURSIVE NestedEnd(_, _, _, _)
NestedEnd(data, keyStart, end, rangeEnd) ==
    LET s == Find(LB, data, keyStart, end - 2)
    IN IF s = -1 THEN end
       ELSE LET n == Find(RB, data, end, rangeEnd)
            IN IF n = -1 THEN -1
               ELSE NestedEnd(data, keyStart + s + 2, end + n + 2, rangeEnd)

\* lines 44-72: {{key:value}} stores the value and deletes the span
ApplyAssign(st, rs, end0, set) ==
    LET end == NestedEnd(st.data, rs + set + 3, end0, st.end)
    IN IF end = -1
       THEN [st EXCEPT !.start = rs,
                       !.result = PushError(@, ErrNoEnd(rs)),
                       !.status = "returned"]
       ELSE LET key == Slice(st.data, rs + 2, end - 2)
                setKey == Slice(key, 0, set)
                setValue == Slice(key, set + 1, Len(key))
            IN [st EXCEPT !.variables = VarsInsert(@, setKey, setValue),
                          !.data = ReplaceRange(@, rs, end, <<>>),
                          !.start = rs,
                          !.end = @ - (end - rs)]

\* mutant: the end of the range is not moved by the change of length
ApplyReplaceStaleEnd(st, rs, end, content) ==
    [st EXCEPT !.data = ReplaceRange(@, rs, end, content),
               !.start = rs + Len(content)]

\* mutant: the scan goes on at the place of the marker, over the inserted value
ApplyReplaceRescan(st, rs, end, content) ==
    [st EXCEPT !.data = ReplaceRange(@, rs, end, content),
               !.end = @ + Len(content) - (end - rs),
               !.start = rs]

\* lines 88-91: the marker is replaced and the range moves past the value
ApplyReplace(st, rs, end, content) ==
    [st EXCEPT !.data = ReplaceRange(@, rs, end, content),
               !.end = @ + Len(content) - (end - rs),
               !.start = rs + Len(content)]

\* mutant: an unknown key is recorded and skipped, and the scan goes on behind it
ApplyLookupSkipUnknown(st, rs, end, key, cell) ==
    IF key = MdPostListKey
    THEN IF cell.set
         THEN ApplyReplace(st, rs, end, cell.value)
         ELSE [st EXCEPT !.start = rs, !.status = "panicked"]
    ELSE IF VarsHas(st.variables, key)
         THEN ApplyReplace(st, rs, end, st.variables[key])
         ELSE [st EXCEPT !.start = end,
                         !.result = PushError(@, ErrUnknownKey(key))]

\* lines 74-91: {{key}} is looked up, md_post_list in the OnceLock of the context
ApplyLookup(st, rs, end, key, cell) ==
    IF key = MdPostListKey
    THEN IF cell.set
         THEN ApplyReplace(st, rs, end, cell.value)
         ELSE [st EXCEPT !.start = rs, !.status = "panicked"]   \* get().unwrap() on None
    ELSE IF VarsHas(st.variables, key)
         THEN ApplyReplace(st, rs, end, st.variables[key])
         ELSE [st EXCEPT !.start = rs,
                         !.result = PushError(@, ErrUnknownKey(key)),
                         !.status = "returned"]

\* one iteration of `while let Some(start) = data[range.start..range.end].find("{{")`
ApplyIter(st, cell) ==
    LET s == FindOpen(st.data, st.start, st.end)
    IN IF s = -1 THEN [st EXCEPT !.status = "returned"]
       ELSE LET rs == st.start + s
                e == Find(RB, st.data, rs, st.end)
            IN IF e = -1
               THEN [st EXCEPT !.start = rs,
                               !.result = PushError(@, ErrNoEnd(rs)),
                               !.status = "returned"]
               ELSE LET end == rs + e + 2
                        key == Slice(st.data, rs + 2, end - 2)
                        set == Find(Colon, key, 0, Len(key))
                    IN IF set # -1
                       THEN ApplyAssign(st, rs, end, set)
                       ELSE ApplyLookup(st, rs, end, key, cell)

\* what the iteration that starts in st is about to do
IterKind(st) ==
    LET s == FindOpen(st.data, st.start, st.end)
    IN IF s = -1 THEN "none"
       ELSE LET rs == st.start + s
                e == Find(RB, st.data, rs, st.end)
            IN IF e = -1 THEN "no_end"
               ELSE LET key == Slice(st.data, rs + 2, rs + e)
                    IN IF Find(Colon, key, 0, Len(key)) # -1 THEN "assign" ELSE "lookup"

\* the state apply starts in: apply(data, range, context, result)
ApplyStart(data, from, to, variables, result) ==
    [data |-> data, start |-> from, end |-> to, variables |-> variables,
     result |-> result, status |-> "running"]

\* the whole call: iterate until the loop returns (or the unwrap panics)
RECURSIVE ApplyRun(_, _)
ApplyRun(st, cell) ==
    IF st.status # "running" THEN st ELSE ApplyRun(ApplyIter(st, cell), cell)

----------------------------------------------------------------------------
(* get_id_from_name: the slug of a heading *)

LowerLetters == <<"a", "b", "c", "d", "e", "f", "g", "h", "i", "j", "k", "l", "m",
                  "n", "o", "p", "q", "r", "s", "t", "u", "v", "w", "x", "y", "z">>
UpperLetters == <<"A", "B", "C", "D", "E", "F", "G", "H", "I", "J", "K", "L", "M",
                  "N", "O", "P", "Q", "R", "S", "T", "U", "V", "W", "X", "Y", "Z">>
Digits == {"0", "1", "2", "3", "4", "5", "6", "7", "8", "9"}
Whitespace == {" ", "\t", "\n", "\r"}

Range(seq) == {seq[i] : i \in 1..Len(seq)}

\* u8::is_ascii_digit
is_ascii_digit(c) == c \in Digits

\* char::is_ascii_alphanumeric
is_ascii_alphanumeric(c) ==
    c \in Digits \/ c \in Range(LowerLetters) \/ c \in Range(UpperLetters)

\* char::to_ascii_lowercase
to_ascii_lowercase(c) ==
    IF c \in Range(UpperLetters)
    THEN LowerLetters[CHOOSE i \in 1..Len(UpperLetters) : UpperLetters[i] = c]
    ELSE c

\* str::trim
RECURSIVE trim_start(_)
trim_start(s) ==
    IF s # <<>> /\ Head(s) \in Whitespace THEN trim_start(Tail(s)) ELSE s

RECURSIVE trim_end(_)
trim_end(s) ==
    IF s # <<>> /\ s[Len(s)] \in Whitespace THEN trim_end(SubSeq(s, 1, Len(s) - 1)) ELSE s

trim(s) == trim_end(trim_start(s))

\* the loop of get_id_from_name over the trimmed name
RECURSIVE slug_chars(_)
slug_chars(s) ==
    IF s = <<>> THEN <<>>
    ELSE LET c == Head(s)
         IN (IF is_ascii_alphanumeric(c) THEN <<to_ascii_lowercase(c)>>
             ELSE IF c = " " \/ c = "_" THEN <<"-">>
             ELSE <<>>) \o slug_chars(Tail(s))

\* mutant: the name is not trimmed before the loop
get_id_from_name_untrimmed(name) ==
    LET n1 == IF name # <<>> /\ is_ascii_digit(Head(name)) THEN Tail(name) ELSE name
        n2 == IF n1 # <<>> /\ Head(n1) = "." THEN Tail(n1) ELSE n1
    IN slug_chars(n2)

get_id_from_name(name) ==
    LET n1 == IF name # <<>> /\ is_ascii_digit(Head(name)) THEN Tail(name) ELSE name
        n2 == IF n1 # <<>> /\ Head(n1) = "." THEN Tail(n1) ELSE n1
    IN slug_chars(trim(n2))

----------------------------------------------------------------------------
(* quick_xml::Reader over the buffer: read_event_into.  Tags are read from "<" to the
   next ">"; comments, declarations and quoted ">" in attributes are not in the pages
   of this model. *)

NoneVal == -1

StartsWith(s, prefix) == Len(s) >= Len(prefix) /\ SubSeq(s, 1, Len(prefix)) = prefix

\* the event at byte pos of the buffer and the position behind it
read_event_into(buffer, pos) ==
    IF pos >= Len(buffer) THEN [kind |-> "eof", content |-> <<>>, next |-> pos]
    ELSE IF buffer[pos + 1] # "<"
    THEN LET lt == Find(<<"<">>, buffer, pos, Len(buffer))
             next == IF lt = -1 THEN Len(buffer) ELSE pos + lt
         IN [kind |-> "text", content |-> Slice(buffer, pos, next), next |-> next]
    ELSE LET gt == Find(<<">">>, buffer, pos, Len(buffer))
         IN IF gt = -1 THEN [kind |-> "err", content |-> <<>>, next |-> Len(buffer)]
            ELSE LET content == Slice(buffer, pos + 1, pos + gt)
                     kind == IF StartsWith(content, <<"/">>) THEN "end"
                             ELSE IF content # <<>> /\ content[Len(content)] = "/"
                                  THEN "empty"
                                  ELSE "start"
                 IN [kind |-> kind,
                     content |-> IF kind = "end" THEN Tail(content) ELSE content,
                     next |-> pos + gt + 1]

\* BytesStart::name / BytesEnd::name: the tag up to the first white space
name(content) ==
    LET ws == {i \in 1..Len(content) : content[i] \in Whitespace}
    IN IF ws = {} THEN content
       ELSE SubSeq(content, 1, (CHOOSE i \in ws : \A j \in ws : i <= j) - 1)

----------------------------------------------------------------------------
(* TemplateRepository: fragment name -> data, read-only after load *)

ImgName == <<"i", "m", "g">>

\* TemplateRepository::get
TemplateGet(templates, element_name) ==
    IF element_name \in DOMAIN templates
    THEN [some |-> TRUE, data |-> templates[element_name]]
    ELSE [some |-> FALSE, data |-> <<>>]

----------------------------------------------------------------------------
(* create_html_file: the rewrite loop over one page.  The state is the reader (buffer
   and position), the variables and ContentResult of the file, and the two positions
   the heading upgrade keeps. *)

\* mutant: every restart runs its pass with a new, empty variable store
set_reader_position_new_store(rw, cell) ==
    LET st == ApplyRun(ApplyStart(rw.buffer, 0, Len(rw.buffer), [k \in {} |-> <<>>],
                                  rw.result),
                       cell)
    IN IF st.status = "panicked" THEN [rw EXCEPT !.status = "panic"]
       ELSE [rw EXCEPT !.buffer = st.data, !.variables = st.variables,
                       !.result = st.result, !.pos = 0]

\* set_reader_position(reader, context, variables, 0, result): apply over the whole
\* buffer, then a new reader at position 0
set_reader_position(rw, cell) ==
    LET st == ApplyRun(ApplyStart(rw.buffer, 0, Len(rw.buffer), rw.variables, rw.result),
                       cell)
    IN IF st.status = "panicked" THEN [rw EXCEPT !.status = "panic"]
       ELSE [rw EXCEPT !.buffer = st.data, !.variables = st.variables,
                       !.result = st.result, !.pos = 0]

HeaderOpen == <<" ", "c", "l", "a", "s", "s", "=", "\"", "h", "e", "a", "d", "e", "r", "-",
                "t", "e", "x", "t", "\"", " ", "i", "d", "=", "\"">>
HeaderHref == <<"\"", ">", "<", "a", " ", "h", "r", "e", "f", "=", "\"", "#">>
HeaderSpan == <<"\"", ">", "<", "s", "p", "a", "n", ">", "#", "<", "/", "s", "p", "a",
                "n", ">", " ">>
AnchorClose == <<"<", "/", "a", ">">>

\* format!("<{element_name} class=\"header-text\" id=\"{id}\"><a href=\"#{id}\"><span>#</span> ")
HeaderNew(element_name, id) ==
    <<"<">> \o element_name \o HeaderOpen \o id \o HeaderHref \o id \o HeaderSpan

\* the guard of upgrade_header: an end tag hN, N a digit other than 1
IsUpgradableName(element_name) ==
    /\ Len(element_name) >= 2
    /\ element_name[1] = "h"
    /\ is_ascii_digit(element_name[2])
    /\ element_name[2] # "1"

\* upgrade_header: [upgraded, rw]; a slice or a subtraction out of range panics
upgrade_header(rw, e_len, element_name, position) ==
    IF \/ ~IsUpgradableName(element_name)
       \/ rw.last_start_position = NoneVal
       \/ position < rw.last_edited_position + 1
    THEN [upgraded |-> FALSE, rw |-> rw]
    ELSE LET lsp == rw.last_start_position
             taken == [rw EXCEPT !.last_start_position = NoneVal]
             panic == [upgraded |-> FALSE, rw |-> [taken EXCEPT !.status = "panic"]]
         IN IF lsp < 4 THEN panic
            ELSE IF ~StartsWith(Slice(rw.buffer, lsp - 4, lsp), <<"<", "h">>)
            THEN [upgraded |-> FALSE, rw |-> taken]
            ELSE IF lsp - e_len - 2 < 0 \/ position < 5 \/ lsp > position - 5 THEN panic
            ELSE LET start_position == lsp - e_len - 2
                     id == get_id_from_name(Slice(rw.buffer, lsp, position - 5))
                     new == HeaderNew(element_name, id)
                     b1 == ReplaceRange(rw.buffer, start_position, lsp, new)
                     position2 == position + Len(new) - 9
                 IN IF position2 > Len(b1) THEN panic
                    ELSE [upgraded |-> TRUE,
                          rw |-> [taken EXCEPT
                                    !.buffer = ReplaceRange(b1, position2, position2,
                                          AnchorClose),
                                    !.last_edited_position = position2 + 9,
                                    !.upgraded = @ + 1]]

\* upgrade_image: logs whether buffer[last_start_position..position] holds "webm"
upgrade_image(rw, position) ==
    LET from == IF rw.last_start_position = NoneVal THEN 0 ELSE rw.last_start_position
    IN IF from > position THEN [rw EXCEPT !.status = "panic"] ELSE rw

\* mutant: after a fragment is spliced in, the scan goes on behind the fragment
OnStartNoRestart(rw, ev, templates, cell) ==
    LET element_name == name(ev.content)
        template == TemplateGet(templates, element_name)
    IN IF template.some
       THEN LET position == ev.next
                start_position == position - Len(ev.content) - 2
                spliced == set_reader_position(
                               [rw EXCEPT !.buffer = ReplaceRange(@, start_position, position,
                                     template.data),
                                          !.included = @ + 1],
                               cell)
            IN IF spliced.status = "panic" THEN spliced
               ELSE [spliced EXCEPT !.pos = IF start_position + Len(template.data)
                                                  <= Len(spliced.buffer)
                                               THEN start_position + Len(template.data)
                                               ELSE Len(spliced.buffer)]
       ELSE LET img == IF element_name = ImgName THEN upgrade_image(rw, ev.next) ELSE rw
            IN IF img.status = "panic" THEN img
               ELSE [img EXCEPT !.last_start_position = ev.next, !.pos = ev.next]

\* Event::Start: a fragment is spliced over the tag and the scan restarts at 0
OnStart(rw, ev, templates, cell) ==
    LET element_name == name(ev.content)
        template == TemplateGet(templates, element_name)
    IN IF template.some
       THEN LET position == ev.next
                start_position == position - Len(ev.content) - 2
            IN set_reader_position(
                   [rw EXCEPT !.buffer = ReplaceRange(@, start_position, position,
                                                         template.data),
                              !.included = @ + 1],
                   cell)
       ELSE LET img == IF element_name = ImgName THEN upgrade_image(rw, ev.next) ELSE rw
            IN IF img.status = "panic" THEN img
               ELSE [img EXCEPT !.last_start_position = ev.next, !.pos = ev.next]

\* Event::End: a heading may be upgraded, and then the scan restarts at 0
OnEnd(rw, ev, cell) ==
    LET up == upgrade_header(rw, Len(ev.content), name(ev.content), ev.next)
    IN IF up.rw.status = "panic" THEN up.rw
       ELSE IF up.upgraded THEN set_reader_position(up.rw, cell)
       ELSE [up.rw EXCEPT !.pos = ev.next]

\* one turn of the loop of create_html_file
create_html_file_step(rw, templates, cell) ==
    LET ev == read_event_into(rw.buffer, rw.pos)
    IN CASE ev.kind = "start" -> OnStart(rw, ev, templates, cell)
         [] ev.kind = "end" -> OnEnd(rw, ev, cell)
         [] ev.kind = "eof" -> [rw EXCEPT !.status = "eof"]
         [] ev.kind = "err" -> [rw EXCEPT !.status = "err", !.pos = ev.next]
         [] OTHER -> [rw EXCEPT !.pos = ev.next]

\* create_html_file up to its loop: the template file is read into the buffer and
\* set_reader_position runs the first substitution pass
create_html_file_start(page, variables, result, cell) ==
    set_reader_position(
        [buffer |-> page, pos |-> 0, variables |-> variables, result |-> result,
         last_start_position |-> NoneVal, last_edited_position |-> 0,
         status |-> "running", included |-> 0, upgraded |-> 0],
        cell)

\* create_html_file, whole: Ok(buffer) at Eof, Err on a reader error, or a panic
RECURSIVE create_html_file(_, _, _)
create_html_file(rw, templates, cell) ==
    IF rw.status # "running" THEN rw
    ELSE create_html_file(create_html_file_step(rw, templates, cell), templates, cell)

----------------------------------------------------------------------------
(* Inputs of the substitution pass: buffers built from marker and text segments *)

KeyX == <<"x">>
KeyY == <<"y">>
KeyZ == <<"z">>
Hello == <<"h", "e", "l", "l", "o">>

Seg(kind, key, value) == [kind |-> kind, key |-> key, value |-> value]

\* the markers {{key}} and {{key:value}}
Lookup(key) == LB \o key \o RB
Assign(key, value) == LB \o key \o Colon \o value \o RB

\* the bytes of a segment
SegText(seg) ==
    CASE seg.kind = "lookup" -> Lookup(seg.key)
      [] seg.kind = "assign" -> Assign(seg.key, seg.value)
      [] OTHER -> seg.value

\* text free of braces, {{key}} and {{key:value}} with balanced values
WellFormedSegments ==
    { Seg("text", <<>>, <<"a">>),
      Seg("lookup", KeyX, <<>>),
      Seg("lookup", KeyY, <<>>),
      Seg("lookup", KeyZ, <<>>),
      Seg("lookup", MdPostListKey, <<>>),
      Seg("assign", KeyX, Hello),
      Seg("assign", KeyY, LB \o KeyX \o RB),
      Seg("assign", MdPostListKey, <<"b">>) }

\* loose braces and colons, from which every other shape of buffer is built
RawSegments ==
    { Seg("raw", <<>>, LB), Seg("raw", <<>>, RB), Seg("raw", <<>>, <<"{">>),
      Seg("raw", <<>>, Colon), Seg("raw", <<>>, KeyX) }

Segments == WellFormedSegments \cup RawSegments

SegLists == UNION { [1..n -> Segments] : n \in 0..MaxSegs }

RECURSIVE SegsText(_)
SegsText(segs) == IF segs = <<>> THEN <<>> ELSE SegText(Head(segs)) \o SegsText(Tail(segs))

EmptyVars == [k \in {} |-> <<>>]

\* variable stores a pass starts with; values may themselves hold markers
InitialVars == { EmptyVars, (KeyX :> (LB \o KeyY \o RB)) @@ (KeyY :> <<"c">>) }

\* the Global Post List a render task finds in the context
PostListValue == <<"P">>
AssignedCell == OnceLockSet(OnceLockNew, PostListValue).cell

----------------------------------------------------------------------------
(* SpecApply: substitution passes over one buffer, as set_reader_position runs them *)

InitApply ==
    \E segs \in SegLists, vs \in InitialVars :
        LET data == SegsText(segs)
        IN /\ apIn = [segs |-> segs, data |-> data, variables |-> vs,
                      result |-> ContentResultNew, cell |-> AssignedCell, pass |-> 1]
           /\ ap = ApplyStart(data, 0, Len(data), vs, ContentResultNew)
           /\ apOp = <<>>
           /\ RewriteIdle /\ ContentIdle /\ MarkdownIdle

\* one iteration of the while loop of apply
ApplyStep ==
    /\ ap.status = "running"
    /\ ap' = ApplyIter(ap, apIn.cell)
    /\ apOp' = Append(apOp, IterKind(ap))
    /\ UNCHANGED <<apIn, rewriteVars, contentVars, mdVars>>

\* set_reader_position: the next pass runs over the whole buffer the last one left,
\* with the same variables and the same ContentResult
ApplyAgain ==
    /\ ap.status = "returned"
    /\ apIn.pass < MaxPasses
    /\ apIn' = [segs |-> apIn.segs, data |-> ap.data, variables |-> ap.variables,
                result |-> ap.result, cell |-> apIn.cell, pass |-> apIn.pass + 1]
    /\ ap' = ApplyStart(ap.data, 0, Len(ap.data), ap.variables, ap.result)
    /\ apOp' = <<>>
    /\ UNCHANGED <<rewriteVars, contentVars, mdVars>>

NextApply == ApplyStep \/ ApplyAgain

SpecApply == InitApply /\ [][NextApply]_vars

----------------------------------------------------------------------------
(* Claims about the substitution pass (SpecApply) *)

WellFormed(segs) == \A i \in 1..Len(segs) : segs[i] \in WellFormedSegments

HasMarker(data) == Find(LB, data, 0, Len(data)) # -1

LastOp == IF apOp = <<>> THEN "start" ELSE apOp[Len(apOp)]

\* What a pass is to make of a list of well-formed segments, read off the segments and
\* not off the bytes: text is kept, an assignment vanishes and stores its value, a lookup
\* becomes the value of its key, and the first lookup of an unknown key leaves itself and
\* everything after it in place. reserved: md_post_list always comes from the cell.
RECURSIVE RefSubst(_, _, _, _)
RefSubst(segs, variables, postList, reserved) ==
    IF segs = <<>> THEN [out |-> <<>>, variables |-> variables]
    ELSE LET seg == Head(segs)
             rest == Tail(segs)
             keep(text, vs) ==
                 LET r == RefSubst(rest, vs, postList, reserved)
                 IN [out |-> text \o r.out, variables |-> r.variables]
         IN CASE seg.kind = "assign" ->
                     keep(<<>>, [k \in DOMAIN variables \cup {seg.key} |->
                                    IF k = seg.key THEN seg.value ELSE variables[k]])
              [] seg.kind = "lookup" ->
                     IF seg.key = MdPostListKey /\ (reserved \/ seg.key \notin DOMAIN variables)
                     THEN keep(postList, variables)
                     ELSE IF seg.key \in DOMAIN variables
                          THEN keep(variables[seg.key], variables)
                          ELSE [out |-> SegsText(segs), variables |-> variables]
              [] OTHER -> keep(seg.value, variables)

\* C6 (as amended): in one pass over well-formed markers every assignment {{k:v}} is
\* deleted and stores k -> v over any earlier value, and every lookup {{k}} the scan
\* reaches, k other than the reserved md_post_list, is replaced by the value of the
\* nearest preceding assignment of k (else by the value the store started with);
\* md_post_list is always replaced by the Global Post List.
C6_AssignmentBeforeUse ==
    (apIn.pass = 1 /\ ap.status = "returned" /\ WellFormed(apIn.segs)) =>
        LET r == RefSubst(apIn.segs, apIn.variables, apIn.cell.value, TRUE)
        IN ap.data = r.out /\ ap.variables = r.variables

\* C6 witness: {{x:hello}}{{x}} over a store that already held x became exactly hello
C6_Witness ==
    /\ apIn.pass = 1 /\ ap.status = "returned"
    /\ apIn.segs = <<Seg("assign", KeyX, Hello), Seg("lookup", KeyX, <<>>)>>
    /\ KeyX \in DOMAIN apIn.variables /\ apIn.variables[KeyX] # Hello
    /\ ap.data = Hello /\ ap.variables[KeyX] = Hello

\* C6 as claimed: every lookup, md_post_list included, takes the value of the nearest
\* preceding assignment of its key
C6_Original ==
    (apIn.pass = 1 /\ ap.status = "returned" /\ WellFormed(apIn.segs)) =>
        LET r == RefSubst(apIn.segs, apIn.variables, apIn.cell.value, FALSE)
        IN ap.data = r.out /\ ap.variables = r.variables

\* C7 (as amended): a pass over a buffer that holds no "{{" returns the buffer, the
\* store and the ContentResult unchanged; this covers a second pass only when the
\* output of the first holds no "{{".
C7_NoMarkerNoOp ==
    (ap.status = "returned" /\ ~HasMarker(apIn.data)) =>
        /\ ap.data = apIn.data
        /\ ap.variables = apIn.variables
        /\ ap.result = apIn.result

\* C7 witness: a second pass over the marker-free output of a pass that resolved markers
C7_Witness ==
    /\ apIn.pass = 2 /\ ap.status = "returned"
    /\ ~HasMarker(apIn.data) /\ apIn.data # <<>>
    /\ apIn.result.errors = <<>>
    /\ \E i \in 1..Len(apIn.segs) : apIn.segs[i].kind = "lookup"

\* C7 as claimed: a second pass over the output of a pass that resolved every marker
\* changes nothing
C7_Original ==
    (apIn.pass = 2 /\ ap.status = "returned" /\ apIn.result.errors = <<>>) =>
        /\ ap.data = apIn.data
        /\ ap.variables = apIn.variables
        /\ ap.result = apIn.result

\* the key of the marker the iteration starting in st looks at
MarkerKey(st) ==
    LET rs == st.start + Find(LB, st.data, st.start, st.end)
    IN Slice(st.data, rs + 2, rs + Find(RB, st.data, rs, st.end))

C10_RangeAfterResolution ==
    [][(ap.status = "running" /\ ap'.status = "running" /\ apIn' = apIn) =>
        LET rs == ap.start + Find(LB, ap.data, ap.start, ap.end)
            key == Slice(ap.data, rs + 2, rs + Find(RB, ap.data, rs, ap.end))
            value == IF key = MdPostListKey THEN apIn.cell.value ELSE ap.variables[key]
            mend == rs + Len(key) + 4
            tail(d, from) == Slice(d, from, Len(d))
        IN /\ ap'.end = Len(ap'.data)
           /\ Slice(ap'.data, 0, rs) = Slice(ap.data, 0, rs)
           /\ IterKind(ap) = "lookup" =>
                 /\ ap'.start = rs + Len(value)
                 /\ Slice(ap'.data, rs, ap'.start) = value
                 /\ tail(ap'.data, ap'.start) = tail(ap.data, mend)
           /\ IterKind(ap) = "assign" =>
                 /\ ap'.start = rs
                 /\ Len(ap'.data) < Len(ap.data)
                 /\ \E cut \in rs..Len(ap.data) : tail(ap'.data, rs) = tail(ap.data, cut)
      ]_vars

\* C10 witness: {{x}}{{y}} with x -> {{y}}, y -> c ended as {{y}}c: the inserted {{y}}
\* was not rescanned and the marker behind it, moved by the insertion, was resolved
C10_Witness ==
    /\ apIn.pass = 1 /\ ap.status = "returned"
    /\ apIn.segs = <<Seg("lookup", KeyX, <<>>), Seg("lookup", KeyY, <<>>)>>
    /\ KeyX \in DOMAIN apIn.variables
    /\ ap.data = LB \o KeyY \o RB \o apIn.variables[KeyY]
    /\ apOp = <<"lookup", "lookup", "none">>

----------------------------------------------------------------------------
(* process_file: the rewrite of one page and the write-out of its output files *)

Tag(n) == <<"<">> \o n \o <<">">>
EndTag(n) == <<"<", "/">> \o n \o <<">">>
H2 == <<"h", "2">>
H3 == <<"h", "3">>
KeyK == <<"k">>

\* the template repository of the model: fragment t includes fragment u, and u
\* assigns the variable k
Templates ==
    (<<"t">> :> (<<"A">> \o Tag(<<"u">>))) @@
    (<<"u">> :> (Assign(KeyK, <<"v">>) \o <<"B">>))

\* the template pages process_file is given (the file at template_path): a page that
\* shows the post list, one with an unknown key, one the reader fails on, one on which
\* upgrade_header panics, pages with headings, fragments and assignments, and a page
\* whose heading holds a variable that is resolved in two passes
PageList ==
    << Tag(H2) \o <<"a">> \o EndTag(H2) \o Tag(<<"t">>) \o Lookup(MdPostListKey),
       Tag(<<"p">>) \o Lookup(KeyZ) \o Tag(<<"t">>) \o Tag(H2) \o <<"a", " ", "b">> \o EndTag(H2),
       <<"x">> \o EndTag(H2) \o <<"<", "b">>,
       Tag(<<"b">>) \o EndTag(H2),
       Assign(KeyX, Hello) \o Tag(<<"p">>) \o Lookup(KeyX) \o EndTag(<<"p">>),
       Tag(H2) \o <<"A">> \o EndTag(H2) \o Tag(H3) \o <<"b", "_", "c">> \o EndTag(H3),
       Tag(<<"t">>) \o Lookup(KeyK),
       Tag(ImgName) \o Tag(<<"p">>) \o <<"a">> \o EndTag(<<"p">>),
       Lookup(KeyZ),
       Assign(KeyX, Tag(<<"t">>)) \o Tag(<<"t">>),
       <<"<", "t", "/", ">">> \o Tag(<<"p">>) \o Tag(<<"t">>) \o Tag(<<"u">>),
       Assign(KeyX, Lookup(KeyK)) \o Assign(KeyK, <<"x", "x">> \o Tag(H3))
           \o Tag(H2) \o Lookup(KeyX) \o EndTag(H2) >>

Pages == Range(PageList)

\* a repository whose fragment looks a variable up, and one whose fragment holds its
\* own element
LookupTemplates == <<"t">> :> Lookup(KeyX)
SelfTemplates == <<"t">> :> (<<"a">> \o Tag(<<"t">>))

\* the template repositories process_file is run with
Repositories == {Templates, LookupTemplates, SelfTemplates}

\* how the file system answers process_file: the template opens or not, the output
\* files are written or not
IoOutcomes == {"ok", "open_err", "write_panic"}

\* lines 197-229 of process_file, once create_html_file has returned: the page is
\* written as .html and .html.deflate and Ok(result) is returned; an Err of
\* create_html_file is returned by `?`; an expect on a failed write panics
process_file_finish(final, io) ==
    IF final.status = "panic"
    THEN [returned |-> "panic", result |-> ContentResultNew, html |-> <<>>, files |-> {}]
    ELSE IF final.status = "err"
    THEN [returned |-> "err", result |-> ContentResultNew, html |-> <<>>, files |-> {}]
    ELSE IF io = "write_panic"
    THEN [returned |-> "panic", result |-> ContentResultNew, html |-> <<>>, files |-> {}]
    ELSE [returned |-> "ok", result |-> final.result, html |-> final.buffer,
          files |-> {"html", "html.deflate"}]

\* process_file, whole
process_file(page, variables, templates, cell, io) ==
    IF io = "open_err"
    THEN [returned |-> "err", result |-> ContentResultNew, html |-> <<>>, files |-> {}]
    ELSE process_file_finish(
             create_html_file(
                 create_html_file_start(page, variables, ContentResultNew, cell),
                 templates, cell),
             io)

----------------------------------------------------------------------------
(* SpecRewrite: process_file on one page, one event of the reader at a time *)

InitRewrite ==
    \E page \in Pages, vs \in InitialVars :
        /\ \E templates \in Repositories :
              pfIn = [page |-> page, variables |-> vs, cell |-> AssignedCell,
                      templates |-> templates]
        /\ pf = Idle
        /\ pfOut = [returned |-> "running", result |-> ContentResultNew, html |-> <<>>,
                    files |-> {}]
        /\ ApplyIdle /\ ContentIdle /\ MarkdownIdle

\* create_html_file opens and reads the template, and runs the first pass
ProcessFileOpen ==
    /\ pf = Idle /\ pfOut.returned = "running"
    /\ \E opened \in BOOLEAN :
          IF opened
          THEN /\ pf' = create_html_file_start(pfIn.page, pfIn.variables,
                                               ContentResultNew, pfIn.cell)
               /\ UNCHANGED pfOut
          ELSE /\ pfOut' = process_file(pfIn.page, pfIn.variables, pfIn.templates,
                                        pfIn.cell, "open_err")
               /\ UNCHANGED pf
    /\ UNCHANGED <<pfIn, mdVars, applyVars, contentVars>>

\* one event of the loop of create_html_file
RewriteStep ==
    /\ pf # Idle /\ pf.status = "running" /\ pfOut.returned = "running"
    /\ pf.included < MaxIncluded
    /\ pf' = create_html_file_step(pf, pfIn.templates, pfIn.cell)
    /\ UNCHANGED <<pfIn, pfOut, mdVars, applyVars, contentVars>>

\* create_html_file has returned: process_file writes the page, or fails
ProcessFileFinish ==
    /\ pf # Idle /\ pf.status # "running" /\ pfOut.returned = "running"
    /\ \E io \in {"ok", "write_panic"} : pfOut' = process_file_finish(pf, io)
    /\ UNCHANGED <<pf, pfIn, mdVars, applyVars, contentVars>>

NextRewrite == ProcessFileOpen \/ RewriteStep \/ ProcessFileFinish

SpecRewrite == InitRewrite /\ [][NextRewrite]_vars

----------------------------------------------------------------------------
(* Claims about the rewrite of one file (SpecRewrite) *)

HasUnknownKeyError(result) ==
    \E i \in 1..Len(result.errors) :
        result.errors[i].msg = "Unable to find variable with key"

\* C9 as claimed: once a lookup has failed in a file, the rewrite loop includes no
\* template and upgrades no heading any more, and no output file is written for it
C9_Original ==
    [][(pf # Idle /\ pf.status = "running" /\ HasUnknownKeyError(pf.result)) =>
          /\ pf'.included = pf.included
          /\ pf'.upgraded = pf.upgraded
          /\ pfOut'.files = {}
      ]_vars

----------------------------------------------------------------------------
(* Template fixed point (SpecRewrite) *)

\* the element names of the start tags the reader reports from pos on
RECURSIVE StartNamesFrom(_, _)
StartNamesFrom(buffer, pos) ==
    LET ev == read_event_into(buffer, pos)
    IN IF ev.kind \in {"eof", "err"} THEN {}
       ELSE (IF ev.kind = "start" THEN {name(ev.content)} ELSE {})
            \cup StartNamesFrom(buffer, ev.next)

StartNames(buffer) == StartNamesFrom(buffer, 0)

\* the fragments whose start tag the text holds
FragmentStarts(text, templates) == StartNames(text) \cap DOMAIN templates

\* the fragments reached from the fragments fs by following start tags n times
RECURSIVE IncludedWithin(_, _, _)
IncludedWithin(fs, templates, n) ==
    IF n = 0 THEN {}
    ELSE LET direct == UNION {FragmentStarts(templates[f], templates) : f \in fs}
         IN direct \cup IncludedWithin(direct, templates, n - 1)

\* no fragment includes itself, directly or transitively
Acyclic(templates) ==
    \A f \in DOMAIN templates :
        f \notin IncludedWithin({f}, templates, Cardinality(DOMAIN templates))

\* the characters a substituted value needs to make a tag or a marker
MarkupChars == {"<", ">", "{", "}"}

Inert(value) == Range(value) \cap MarkupChars = {}

\* the braces of the text from offset i on are those of closed {{ }} markers, no
\* marker stands inside a tag, and no marker holds a markup character
RECURSIVE PlainMarkersFrom(_, _, _, _)
PlainMarkersFrom(text, i, in_tag, in_marker) ==
    IF i >= Len(text) THEN ~in_marker
    ELSE IF in_marker
    THEN IF i + 2 <= Len(text) /\ Slice(text, i, i + 2) = RB
         THEN PlainMarkersFrom(text, i + 2, in_tag, FALSE)
         ELSE text[i + 1] \notin MarkupChars /\ PlainMarkersFrom(text, i + 1, in_tag, TRUE)
    ELSE IF i + 2 <= Len(text) /\ Slice(text, i, i + 2) = LB
    THEN ~in_tag /\ PlainMarkersFrom(text, i + 2, in_tag, TRUE)
    ELSE /\ text[i + 1] \notin {"{", "}"}
         /\ PlainMarkersFrom(text, i + 1,
                             IF text[i + 1] = "<" THEN TRUE
                             ELSE IF text[i + 1] = ">" THEN FALSE ELSE in_tag,
                             FALSE)

PlainMarkers(text) == PlainMarkersFrom(text, 0, FALSE, FALSE)

\* substitution writes text only: no value of the store, no assigned value and not
\* the post list holds a markup character, and the markers stand outside the tags
SubstitutionWritesText(in) ==
    /\ \A k \in DOMAIN in.variables : Inert(in.variables[k])
    /\ in.cell.set => Inert(in.cell.value)
    /\ PlainMarkers(in.page)
    /\ \A f \in DOMAIN in.templates : PlainMarkers(in.templates[f])

\* the elements upgrade_header writes into the buffer, beside the heading itself
UpgradeElements == {<<"a">>, <<"s", "p", "a", "n">>}

\* the inclusions the text from pos on still calls for: one for each start tag of a
\* fragment, and those its data calls for (followed n fragments deep)
RECURSIVE PendingFrom(_, _, _, _)
PendingFrom(text, pos, templates, n) ==
    LET ev == read_event_into(text, pos)
    IN IF ev.kind \in {"eof", "err"} THEN 0
       ELSE (IF ev.kind = "start" /\ name(ev.content) \in DOMAIN templates
             THEN 1 + (IF n = 0 THEN 0
                       ELSE PendingFrom(templates[name(ev.content)], 0, templates, n - 1))
             ELSE 0)
            + PendingFrom(text, ev.next, templates, n)

Pending(text, templates) == PendingFrom(text, 0, templates, Cardinality(DOMAIN templates))

\* the end tags of headings that lie behind last_edited_position
RECURSIVE OpenHeadingsFrom(_, _, _)
OpenHeadingsFrom(buffer, pos, edited) ==
    LET ev == read_event_into(buffer, pos)
    IN IF ev.kind \in {"eof", "err"} THEN 0
       ELSE (IF ev.kind = "end" /\ IsUpgradableName(name(ev.content)) /\ ev.next > edited
             THEN 1 ELSE 0)
            + OpenHeadingsFrom(buffer, ev.next, edited)

\* what is left to do in a state of the loop: inclusions, heading upgrades, bytes to read
Rank(rw, templates) ==
    <<Pending(rw.buffer, templates),
      OpenHeadingsFrom(rw.buffer, 0, rw.last_edited_position),
      Len(rw.buffer) - rw.pos>>

RankLess(a, b) ==
    \/ a[1] < b[1]
    \/ a[1] = b[1] /\ a[2] < b[2]
    \/ a[1] = b[1] /\ a[2] = b[2] /\ a[3] < b[3]

\* the inputs the fixed point is claimed for
FixedPointInput(in) ==
    /\ Acyclic(in.templates)
    /\ \A f \in DOMAIN in.templates : f \notin UpgradeElements /\ ~IsUpgradableName(f)
    /\ SubstitutionWritesText(in)

\* the loop of create_html_file is running in this state
Rewriting == pf # Idle /\ pf.status = "running"

\* at Eof no start tag of the buffer names a loaded fragment
EofExpanded(rw, templates) ==
    (rw # Idle /\ rw.status = "eof") => FragmentStarts(rw.buffer, templates) = {}

----------------------------------------------------------------------------
(* process_content: the content files, what their analysis yields, the post list *)

\* collect_files_for_processing: the content files, in the order of the walk
Files == 1..NumFiles

FileChars == <<"1", "2", "3", "4", "5", "6", "7", "8", "9">>
FileChar(f) == FileChars[((f - 1) % Len(FileChars)) + 1]

\* the template of a file (PreliminaryAnalysisOutput.template_path)
PageOf(f) == PageList[((f - 1) % Len(PageList)) + 1]

LinkKey == <<"l", "i", "n", "k">>
WarningKey == <<"w", "a", "r", "n", "i", "n", "g">>

\* analyze_file: ContentVariables::new() holds "warning", then "link" is inserted
AnalysisVariables(f) ==
    VarsInsert(VarsInsert(EmptyVars, WarningKey, <<>>), LinkKey, <<"/", FileChar(f)>>)

\* PreliminaryAnalysisOutput.content: blog posts with a publish date and a draft flag;
\* files 2 and 4 share a date, file 3 is a draft, file 5 is no blog post
FileContent(f) ==
    LET i == ((f - 1) % 5) + 1
    IN [blog |-> i # 5, draft |-> i = 3, date |-> IF i = 1 THEN 1 ELSE IF i = 3 THEN 3 ELSE 2]

\* the outcomes of one analyze_file task: Ok(output), Err(error), or a panic
AnalysisOutcomes == {"ok", "err", "panic"}

\* mutant: a post is put before the posts of its own date
RECURSIVE InsertByDateUnstable(_, _)
InsertByDateUnstable(sorted, f) ==
    IF sorted = <<>> THEN <<f>>
    ELSE IF FileContent(Head(sorted)).date > FileContent(f).date
         THEN <<Head(sorted)>> \o InsertByDateUnstable(Tail(sorted), f)
         ELSE <<f>> \o sorted

\* stable insertion of a post behind every post that is not older
RECURSIVE InsertByDate(_, _)
InsertByDate(sorted, f) ==
    IF sorted = <<>> THEN <<f>>
    ELSE IF FileContent(Head(sorted)).date >= FileContent(f).date
         THEN <<Head(sorted)>> \o InsertByDate(Tail(sorted), f)
         ELSE <<f>> \o sorted

RECURSIVE SortByDateDesc(_)
SortByDateDesc(posts) ==
    IF posts = <<>> THEN <<>>
    ELSE InsertByDate(SortByDateDesc(SubSeq(posts, 1, Len(posts) - 1)), posts[Len(posts)])

IsPublishedPost(f) == FileContent(f).blog /\ ~FileContent(f).draft

RECURSIVE RenderCards(_)
RenderCards(posts) ==
    IF posts = <<>> THEN <<>> ELSE <<FileChar(Head(posts))>> \o RenderCards(Tail(posts))

\* markdown::create_md_post_list: the non-draft blog posts, newest first, one card each
create_md_post_list(outputs) ==
    RenderCards(SortByDateDesc(SelectSeq(outputs, IsPublishedPost)))

\* the errors process_content pushes itself: a JoinError, or the Err a task returned
ErrJoin(f) == [msg |-> "JoinError", key |-> <<>>, position |-> NoPosition, file |-> f]
ErrTask(f) == [msg |-> "task returned Err", key |-> <<>>, position |-> NoPosition, file |-> f]

NoOutcome == [returned |-> "none", result |-> ContentResultNew, html |-> <<>>, files |-> {}]

----------------------------------------------------------------------------
(* Spec: process_content, with its tasks running in any interleaving *)

Init ==
    /\ pc = "spawn_a"
    /\ next_file = 1
    /\ tasks_a = [f \in Files |-> [state |-> "unspawned", outcome |-> "none"]]
    /\ preliminary_outputs = <<>>
    /\ content_result = ContentResultNew
    /\ md_post_list = OnceLockNew
    /\ tasks_b = [f \in Files |-> [state |-> "unspawned", out |-> NoOutcome,
                                   ctx |-> OnceLockNew]]
    /\ log = ""
    /\ ApplyIdle /\ RewriteIdle /\ MarkdownIdle

\* lines 66-69: the for loop spawns analyze_file for the next file
SpawnA ==
    /\ pc = "spawn_a"
    /\ tasks_a' = [tasks_a EXCEPT ![next_file].state = "running"]
    /\ next_file' = next_file + 1
    /\ pc' = IF next_file = NumFiles THEN "join_a" ELSE "spawn_a"
    /\ UNCHANGED <<preliminary_outputs, content_result, md_post_list, tasks_b, log,
                   mdVars, applyVars, rewriteVars>>

\* an analyze_file task runs to its end on the pool
RunA(f) ==
    /\ tasks_a[f].state = "running"
    /\ \E o \in AnalysisOutcomes :
          tasks_a' = [tasks_a EXCEPT ![f] = [state |-> "finished", outcome |-> o]]
    /\ UNCHANGED <<pc, next_file, preliminary_outputs, content_result, md_post_list,
                   tasks_b, log, mdVars, applyVars, rewriteVars>>

\* mutant: the error of a task is returned with `?` instead of being pushed
JoinAPropagates(f) ==
    /\ pc = "join_a"
    /\ tasks_a[f].state = "finished"
    /\ tasks_a' = [tasks_a EXCEPT ![f].state = "joined"]
    /\ preliminary_outputs' =
          IF tasks_a[f].outcome = "ok" THEN Append(preliminary_outputs, f)
          ELSE preliminary_outputs
    /\ pc' = IF tasks_a[f].outcome = "ok" THEN pc ELSE "returned_err"
    /\ UNCHANGED <<content_result, next_file, md_post_list, tasks_b, log, mdVars, applyVars,
                   rewriteVars>>

\* lines 73-89: join_next hands over a finished task; its output is kept, or its
\* error (returned, or the JoinError of a panic) is pushed
JoinA(f) ==
    /\ pc = "join_a"
    /\ tasks_a[f].state = "finished"
    /\ tasks_a' = [tasks_a EXCEPT ![f].state = "joined"]
    /\ preliminary_outputs' =
          IF tasks_a[f].outcome = "ok" THEN Append(preliminary_outputs, f)
          ELSE preliminary_outputs
    /\ content_result' =
          IF tasks_a[f].outcome = "panic" THEN PushError(content_result, ErrJoin(f))
          ELSE IF tasks_a[f].outcome = "err" THEN PushError(content_result, ErrTask(f))
          ELSE content_result
    /\ UNCHANGED <<pc, next_file, md_post_list, tasks_b, log, mdVars, applyVars, rewriteVars>>

\* mutant: the render wave is started without the post list having been set
BarrierWithoutSet ==
    /\ pc = "join_a"
    /\ \A f \in Files : tasks_a[f].state = "joined"
    /\ pc' = IF preliminary_outputs = <<>> THEN "join_b" ELSE "spawn_b"
    /\ next_file' = 1
    /\ UNCHANGED <<md_post_list, tasks_a, preliminary_outputs, content_result, tasks_b,
                   log, mdVars, applyVars, rewriteVars>>

\* mutant: the post list is built and set inside the join loop, once per joined task
BarrierInLoop ==
    /\ pc = "join_a"
    /\ \E f \in Files : tasks_a[f].state = "joined"
    /\ LET set == OnceLockSet(md_post_list, create_md_post_list(preliminary_outputs))
       IN /\ md_post_list' = set.cell
          /\ pc' = IF ~set.ok THEN "panicked"
                   ELSE IF \E f \in Files : tasks_a[f].state # "joined" THEN "join_a"
                   ELSE IF preliminary_outputs = <<>> THEN "join_b" ELSE "spawn_b"
    /\ next_file' = 1
    /\ UNCHANGED <<tasks_a, preliminary_outputs, content_result, tasks_b, log,
                   mdVars, applyVars, rewriteVars>>

\* lines 91-95: join_next has returned None; the post list is built, `?` returns its
\* error, and the list is set into the OnceLock, which expect()s to be the first write
Barrier ==
    /\ pc = "join_a"
    /\ \A f \in Files : tasks_a[f].state = "joined"
    /\ \E built \in BOOLEAN :
          IF ~built
          THEN pc' = "returned_err" /\ UNCHANGED md_post_list
          ELSE LET set == OnceLockSet(md_post_list, create_md_post_list(preliminary_outputs))
               IN /\ md_post_list' = set.cell
                  /\ pc' = IF ~set.ok THEN "panicked"
                           ELSE IF preliminary_outputs = <<>> THEN "join_b" ELSE "spawn_b"
    /\ next_file' = 1
    /\ UNCHANGED <<tasks_a, preliminary_outputs, content_result, tasks_b, log,
                   mdVars, applyVars, rewriteVars>>

\* lines 97-102: the for loop spawns process_file for the next preliminary output
SpawnB ==
    /\ pc = "spawn_b"
    /\ tasks_b' = [tasks_b EXCEPT ![preliminary_outputs[next_file]].state = "running"]
    /\ next_file' = next_file + 1
    /\ pc' = IF next_file = Len(preliminary_outputs) THEN "join_b" ELSE "spawn_b"
    /\ UNCHANGED <<tasks_a, preliminary_outputs, content_result, md_post_list, log,
                   mdVars, applyVars, rewriteVars>>

\* a process_file task runs to its end on the pool, with the context as it is
RunB(f) ==
    /\ tasks_b[f].state = "running"
    /\ \E io \in IoOutcomes :
          tasks_b' = [tasks_b EXCEPT ![f] =
                        [state |-> "finished",
                         out |-> process_file(PageOf(f), AnalysisVariables(f), Templates,
                                              md_post_list, io),
                         ctx |-> md_post_list]]
    /\ UNCHANGED <<pc, next_file, tasks_a, preliminary_outputs, content_result,
                   md_post_list, log, mdVars, applyVars, rewriteVars>>

\* mutant: the ContentResult of a render task that succeeded is dropped
JoinBDropsResult(f) ==
    /\ pc = "join_b"
    /\ tasks_b[f].state = "finished"
    /\ tasks_b' = [tasks_b EXCEPT ![f].state = "joined"]
    /\ content_result' =
          IF tasks_b[f].out.returned = "panic" THEN PushError(content_result, ErrJoin(f))
          ELSE IF tasks_b[f].out.returned = "err" THEN PushError(content_result, ErrTask(f))
          ELSE content_result
    /\ UNCHANGED <<pc, next_file, tasks_a, preliminary_outputs, md_post_list, log,
                   mdVars, applyVars, rewriteVars>>

\* lines 104-123: join_next hands over a finished render task; its errors and
\* warnings are merged, or its error (returned, or a JoinError) is pushed
JoinB(f) ==
    /\ pc = "join_b"
    /\ tasks_b[f].state = "finished"
    /\ tasks_b' = [tasks_b EXCEPT ![f].state = "joined"]
    /\ content_result' =
          IF tasks_b[f].out.returned = "panic" THEN PushError(content_result, ErrJoin(f))
          ELSE IF tasks_b[f].out.returned = "err" THEN PushError(content_result, ErrTask(f))
          ELSE [errors |-> content_result.errors \o tasks_b[f].out.result.errors,
                warnings |-> content_result.warnings \o tasks_b[f].out.result.warnings]
    /\ UNCHANGED <<pc, next_file, tasks_a, preliminary_outputs, md_post_list, log,
                   mdVars, applyVars, rewriteVars>>

\* mutant: a run that has accumulated errors returns Err
ReturnFailsOnErrors ==
    /\ pc = "join_b"
    /\ \A f \in Files : tasks_b[f].state \in {"unspawned", "joined"}
    /\ pc' = IF content_result.errors = <<>> THEN "returned_ok" ELSE "returned_err"
    /\ UNCHANGED <<next_file, tasks_a, preliminary_outputs, content_result, md_post_list,
                   tasks_b, log, mdVars, applyVars, rewriteVars>>

\* line 125: join_next has returned None; Ok(content_result)
Return ==
    /\ pc = "join_b"
    /\ \A f \in Files : tasks_b[f].state \in {"unspawned", "joined"}
    /\ pc' = "returned_ok"
    /\ UNCHANGED <<next_file, tasks_a, preliminary_outputs, content_result, md_post_list,
                   tasks_b, log, mdVars, applyVars, rewriteVars>>

\* main, lines 90-95: an Err of process_content is logged as a failure, anything
\* else as a generated website
MainReport ==
    /\ pc \in {"returned_ok", "returned_err"}
    /\ log = ""
    /\ log' = IF pc = "returned_err" THEN "Failed to process content"
              ELSE "Generated website."
    /\ UNCHANGED <<pc, next_file, tasks_a, preliminary_outputs, content_result,
                   md_post_list, tasks_b, mdVars, applyVars, rewriteVars>>

Next ==
    \/ SpawnA
    \/ \E f \in Files : RunA(f)
    \/ \E f \in Files : JoinA(f)
    \/ Barrier
    \/ SpawnB
    \/ \E f \in Files : RunB(f)
    \/ \E f \in Files : JoinB(f)
    \/ Return
    \/ MainReport

Spec == Init /\ [][Next]_vars

----------------------------------------------------------------------------
(* Claims about process_content (Spec) *)

Count(seq, x) == Cardinality({i \in 1..Len(seq) : seq[i] = x})

\* the errors of the run that process_content pushed for file f
ErrorsOf(f) ==
    {i \in 1..Len(content_result.errors) :
        /\ "file" \in DOMAIN content_result.errors[i]
        /\ content_result.errors[i].file = f}

AnalysisFailed == {f \in Files : tasks_a[f].outcome \in {"err", "panic"}}

Rendered(f) == tasks_b[f].state \in {"finished", "joined"}

\* C1: the post list is set only when every analyze_file task has been joined, no
\* process_file task exists before it is set, and every render task that ran found
\* the cell assigned (its lookup of md_post_list did not panic on an empty cell).
C1_BarrierOrdering ==
    /\ md_post_list.set => \A f \in Files : tasks_a[f].state = "joined"
    /\ \A f \in Files : tasks_b[f].state # "unspawned" => md_post_list.set
    /\ \A f \in Files : Rendered(f) => tasks_b[f].ctx.set
    /\ \A f \in Files :
          (Rendered(f) /\ PageOf(f) = PageList[1] /\ tasks_b[f].out.files # {}) =>
              tasks_b[f].out.returned = "ok"

\* C1 witness: the page that looks up md_post_list was rendered and written, and ends
\* with the fragments and the post list of the two published posts
C1_Witness ==
    /\ Rendered(1) /\ PageOf(1) = PageList[1]
    /\ tasks_b[1].out.returned = "ok"
    /\ md_post_list.value = <<"2", "1">>
    /\ LET html == tasks_b[1].out.html
       IN SubSeq(html, Len(html) - 3, Len(html)) = <<"A", "B", "2", "1">>

\* C2: the cell is written once: once set it never changes, the run never reaches
\* the rejected second write (the panic of expect), and every render task has read
\* the value the cell holds.
C2_WriteOnce ==
    [][/\ md_post_list.set => md_post_list' = md_post_list
       /\ pc' # "panicked"
       /\ \A f \in Files : Rendered(f)' => tasks_b'[f].ctx = md_post_list'
      ]_vars

\* C2 witness: the run has returned and two render tasks have read the same assigned cell
C2_Witness ==
    /\ pc = "returned_ok" /\ md_post_list.set
    /\ \E f, g \in Files :
          /\ f # g /\ Rendered(f) /\ Rendered(g)
          /\ tasks_b[f].ctx = md_post_list /\ tasks_b[g].ctx = md_post_list

\* C3: every joined analysis left exactly one trace: its file once in
\* preliminary_outputs and no error, or one error and no output; a failure never stops
\* the wave (a task can always still run or be joined, or the wave is over), and when
\* the wave is over outputs + errors = files.
C3_WaveAOutcomes ==
    /\ \A f \in Files :
          CASE tasks_a[f].state # "joined" ->
                  Count(preliminary_outputs, f) = 0 /\ ErrorsOf(f) = {}
            [] tasks_a[f].outcome = "ok" ->
                  /\ Count(preliminary_outputs, f) = 1
                  /\ tasks_b[f].state # "joined" => ErrorsOf(f) = {}
            [] OTHER ->
                  Count(preliminary_outputs, f) = 0 /\ Cardinality(ErrorsOf(f)) = 1
    /\ pc = "join_a" =>
          \/ \E f \in Files : tasks_a[f].state \in {"running", "finished"}
          \/ \A f \in Files : tasks_a[f].state = "joined"
    /\ pc \notin {"spawn_a", "join_a"} =>
          /\ \A f \in Files : tasks_a[f].state = "joined"
          /\ Len(preliminary_outputs) + Cardinality(AnalysisFailed) = NumFiles
          /\ Cardinality(UNION {ErrorsOf(f) : f \in AnalysisFailed})
                = Cardinality(AnalysisFailed)

\* C3 witness: one analysis returned Ok, one Err and one panicked, and the wave ended
\* with one output and two errors
C3_Witness ==
    /\ pc = "spawn_b"
    /\ \E f, g, h \in Files :
          /\ tasks_a[f].outcome = "ok" /\ tasks_a[g].outcome = "err"
          /\ tasks_a[h].outcome = "panic"
    /\ Len(preliminary_outputs) = NumFiles - 2
    /\ Len(content_result.errors) = 2

\* what joining the render task of f adds to the errors of the run
RECURSIVE RenderErrors(_)
RenderErrors(fs) ==
    IF fs = {} THEN 0
    ELSE LET f == CHOOSE x \in fs : TRUE
             own == IF tasks_b[f].state # "joined" THEN 0
                    ELSE IF tasks_b[f].out.returned = "ok"
                         THEN Len(tasks_b[f].out.result.errors)
                         ELSE 1
         IN own + RenderErrors(fs \ {f})

\* s holds part as a run of consecutive elements
IsInfix(part, s) ==
    \E i \in 0..(Len(s) - Len(part)) : SubSeq(s, i + 1, i + Len(part)) = part

\* C4: a render task exists for a file exactly when its analysis returned Ok; a task
\* that failed added one error of its own; the errors and warnings of every task that
\* succeeded are in the ContentResult of the run, and nothing else is.
C4_WaveB ==
    /\ \A f \in Files : tasks_a[f].outcome # "ok" => tasks_b[f].state = "unspawned"
    /\ pc \in {"join_b", "returned_ok"} =>
          \A f \in Files : tasks_a[f].outcome = "ok" => tasks_b[f].state # "unspawned"
    /\ \A f \in Files :
          tasks_b[f].state = "joined" =>
             IF tasks_b[f].out.returned = "ok"
             THEN /\ IsInfix(tasks_b[f].out.result.errors, content_result.errors)
                  /\ IsInfix(tasks_b[f].out.result.warnings, content_result.warnings)
                  /\ ErrorsOf(f) = {}
             ELSE Cardinality(ErrorsOf(f)) = 1
    /\ Len(content_result.errors) = Cardinality(AnalysisFailed \cap
                                        {f \in Files : tasks_a[f].state = "joined"})
                                    + RenderErrors(Files)

\* C4 witness: three render tasks were joined: one succeeded without errors, one
\* succeeded with errors of its own, one returned Err; the run returned Ok
C4_Witness ==
    /\ pc = "returned_ok"
    /\ \E f, g, h \in Files :
          /\ tasks_b[f].state = "joined" /\ tasks_b[g].state = "joined"
          /\ tasks_b[h].state = "joined"
          /\ tasks_b[f].out.returned = "ok" /\ tasks_b[f].out.result.errors = <<>>
          /\ tasks_b[g].out.returned = "ok" /\ tasks_b[g].out.result.errors # <<>>
          /\ tasks_b[h].out.returned = "err"

----------------------------------------------------------------------------
(* generate_table_of_contents: the nested list of the headings of the rendered html *)

MaxHeadings == 4    \* number of elements the html given to the table of contents holds

DigitChars == <<"0", "1", "2", "3", "4", "5", "6", "7", "8", "9">>

\* str::parse::<usize> of one byte: the number, or -1 for Err
ParseDigit(c) ==
    IF c \in Range(DigitChars)
    THEN (CHOOSE i \in 1..Len(DigitChars) : DigitChars[i] = c) - 1
    ELSE -1

HOpen == <<"<", "h">>
HClose == <<"<", "/", "h">>
LiOpen == <<"<", "l", "i", ">">>
LiClose == <<"<", "/", "l", "i", ">">>
DetailsOpen == <<"<", "d", "e", "t", "a", "i", "l", "s", " ", "o", "p", "e", "n", ">",
                 "<", "s", "u", "m", "m", "a", "r", "y", ">">>
SummaryClose == <<"<", "/", "s", "u", "m", "m", "a", "r", "y", ">", "<", "u", "l", ">">>
GroupClose == <<"<", "/", "l", "i", ">", "<", "/", "u", "l", ">", "<", "/", "d", "e",
                "t", "a", "i", "l", "s", ">">>
NoHeaders == <<"U", "n", "f", "o", "r", "t", "u", "n", "a", "t", "e", "l", "l", "y",
               ",", " ", "t", "h", "e", "r", "e", " ", "a", "r", "e", " ", "n", "o",
               " ", "h", "e", "a", "d", "e", "r", "s", " ", "i", "n", " ", "t", "h",
               "i", "s", " ", "a", "r", "t", "i", "c", "l", "e", " ", ":", "(">>
ReferencesItem == <<"<", "l", "i", ">", "<", "a", " ", "h", "r", "e", "f", "=", "\"",
                    "#", "r", "e", "f", "e", "r", "e", "n", "c", "e", "s", "\"", ">",
                    "R", "e", "f", "e", "r", "e", "n", "c", "e", "s", "<", "/", "a",
                    ">", "<", "/", "l", "i", ">">>
TopItem == <<"<", "l", "i", ">", "<", "a", " ", "c", "l", "a", "s", "s", "=", "\"",
             "t", "o", "p", "\"", " ", "h", "r", "e", "f", "=", "\"", "#", "\"", ">",
             "(", "T", "o", "p", ")", "<", "/", "a", ">", "<", "/", "l", "i", ">">>

\* mutant: the anchor is written with the text of the heading in place of its id
TocAnchorOfText(id, header) == <<"<", "a", " ", "h", "r", "e", "f", "=", "\"", "#">>
      \o header \o << "\"", ">">> \o header \o << "<", "/", "a", ">">>

\* format!("<a href=\"#{id}\">{header}</a>")
TocAnchor(id, header) == <<"<", "a", " ", "h", "r", "e", "f", "=", "\"", "#">> \o id
      \o << "\"", ">">> \o header \o << "<", "/", "a", ">">>

\* n copies of s, one behind the other
RECURSIVE Repeat(_, _)
Repeat(s, n) == IF n <= 0 THEN <<>> ELSE s \o Repeat(s, n - 1)

NoHeader == [some |-> FALSE, text |-> <<>>]
SomeHeader(text) == [some |-> TRUE, text |-> text]

\* generate_element_for_table_of_contents: the item of the heading before, given the
\* level of the heading that follows it
generate_element_for_table_of_contents(table_of_contents, header, level, last_level) ==
    IF ~header.some THEN table_of_contents
    ELSE table_of_contents
         \o LiOpen
         \o (IF last_level < level THEN DetailsOpen ELSE <<>>)
         \o TocAnchor(get_id_from_name(header.text), header.text)
         \o (IF last_level < level THEN SummaryClose ELSE <<>>)
         \o Repeat(GroupClose, last_level - level)
         \o (IF last_level >= level THEN LiClose ELSE <<>>)

\* the locals of generate_table_of_contents before its loop
TocStart(html, link_references) ==
    [fn |-> "toc", html |-> html, link_references |-> link_references,
     table_of_contents |-> <<>>, index |-> 0, last_level |-> 2, header |-> NoHeader,
     status |-> "running", desktop |-> <<>>]

\* one turn of the while loop: the next "<h", its level, and the item of the heading
\* before it; an index or a level that cannot be read panics
TocIter(t, position) ==
    LET at == t.index + position
    IN IF at + 3 > Len(t.html) THEN [t EXCEPT !.status = "panic"]
       ELSE LET level == ParseDigit(t.html[at + 3])
                index == at + 4
            IN IF level = -1 \/ index > Len(t.html) THEN [t EXCEPT !.status = "panic"]
               ELSE IF level = 1 THEN [t EXCEPT !.index = index]
               ELSE LET end == Find(HClose, t.html, index, Len(t.html))
                    IN IF end = -1 THEN [t EXCEPT !.index = index + 1]
                       ELSE [t EXCEPT
                               !.table_of_contents =
                                   generate_element_for_table_of_contents(
                                       @, t.header, level, t.last_level),
                               !.last_level = level,
                               !.header = SomeHeader(Slice(t.html, index, index + end)),
                               !.index = index + end]

\* behind the loop: the item of the last heading, the placeholder or the References
\* item, and the desktop list with its (Top) item
TocEnd(t) ==
    LET last == generate_element_for_table_of_contents(
                    t.table_of_contents, t.header, 2, t.last_level)
        is_empty == last = <<>>
        mobile == IF is_empty THEN NoHeaders
                  ELSE IF t.link_references THEN last \o ReferencesItem
                  ELSE last
    IN [t EXCEPT !.table_of_contents = mobile,
                 !.desktop = IF is_empty THEN mobile ELSE TopItem \o mobile,
                 !.status = "returned"]

\* the elements the html is built from: headings h1..h4 with a one-letter text, a
\* horizontal rule, and a heading that is never closed
TocElements == {"h1", "h2", "h3", "h4", "hr", "open"}
HeadingLevel(e) == CASE e = "h1" -> 1 [] e = "h2" -> 2 [] e = "h3" -> 3 [] e = "h4" -> 4
                     [] OTHER -> 0
HeadingTexts == <<"a", "b", "c", "d", "e", "f">>

Heading(level, text) ==
    HOpen \o <<DigitChars[level + 1], ">">> \o text \o HClose \o <<DigitChars[level + 1], ">">>

ElementHtml(e, i) ==
    CASE e = "hr" -> <<"<", "h", "r", " ", "/", ">">>
      [] e = "open" -> <<"<", "h", "2", ">", "z">>
      [] OTHER -> Heading(HeadingLevel(e), <<HeadingTexts[((i - 1) % 6) + 1]>>)

RECURSIVE ElementsHtml(_, _)
ElementsHtml(es, i) ==
    IF i > Len(es) THEN <<>> ELSE ElementHtml(es[i], i) \o ElementsHtml(es, i + 1)

ElementLists == UNION {[1..n -> TocElements] : n \in 0..MaxHeadings}

----------------------------------------------------------------------------
(* SpecToc: generate_table_of_contents on one html, one heading at a time *)

InitToc ==
    \E es \in ElementLists, link_references \in BOOLEAN :
        /\ mdIn = [fn |-> "toc", elements |-> es, html |-> ElementsHtml(es, 1),
                   link_references |-> link_references]
        /\ md = TocStart(ElementsHtml(es, 1), link_references)
        /\ ApplyIdle /\ RewriteIdle /\ ContentIdle

\* the loop finds another "<h" (html[index..] panics for an index behind the end)
TocStep ==
    /\ md # Idle /\ md.fn = "toc" /\ md.status = "running"
    /\ IF md.index > Len(md.html)
       THEN md' = [md EXCEPT !.status = "panic"]
       ELSE LET position == Find(HOpen, md.html, md.index, Len(md.html))
            IN position # -1 /\ md' = TocIter(md, position)
    /\ UNCHANGED <<mdIn, applyVars, rewriteVars, contentVars>>

\* the loop finds no "<h": the function returns its two lists
TocReturn ==
    /\ md # Idle /\ md.fn = "toc" /\ md.status = "running"
    /\ md.index <= Len(md.html)
    /\ Find(HOpen, md.html, md.index, Len(md.html)) = -1
    /\ md' = TocEnd(md)
    /\ UNCHANGED <<mdIn, applyVars, rewriteVars, contentVars>>

NextToc == TocStep \/ TocReturn

SpecToc == InitToc /\ [][NextToc]_vars

----------------------------------------------------------------------------
(* Claims about the table of contents (SpecToc) *)

\* the number of tags of one kind ("start" or "end") and element name in the text
RECURSIVE CountTagsFrom(_, _, _, _)
CountTagsFrom(text, pos, kind, element_name) ==
    LET ev == read_event_into(text, pos)
    IN IF ev.kind \in {"eof", "err"} THEN 0
       ELSE (IF ev.kind = kind /\ name(ev.content) = element_name THEN 1 ELSE 0)
            + CountTagsFrom(text, ev.next, kind, element_name)

CountTags(text, kind, element_name) == CountTagsFrom(text, 0, kind, element_name)

\* every element of the list that is opened is closed
Balanced(text) ==
    \A element_name \in {<<"d", "e", "t", "a", "i", "l", "s">>, <<"u", "l">>, <<"l", "i">>,
          << "s", "u", "m", "m", "a", "r", "y">>} :
        CountTags(text, "start", element_name) = CountTags(text, "end", element_name)

\* the html holds headings of level 2 and more only
OnlyHeadings(es) == \A i \in 1..Len(es) : es[i] \in {"h2", "h3", "h4"}

TocItem(text) == LiOpen \o TocAnchor(text, text) \o LiClose

\* the list of h2, h3, h3, h2: one item holding a two-item sublist, then a second item
TocOfExample ==
    LiOpen \o DetailsOpen \o TocAnchor(<<"a">>, <<"a">>) \o SummaryClose
    \o TocItem(<<"b">>) \o TocItem(<<"c">>) \o <<"<", "/", "u", "l", ">", "<", "/",
                                                 "d", "e", "t", "a", "i", "l", "s",
                                                 ">">> \o LiClose
    \o TocItem(<<"d">>)

\* C12 as claimed: for every sequence of headings of level 2 and more the list that is
\* returned closes every group and every item it opens, and for h2, h3, h3, h2 it is
\* one item holding a two-item sublist followed by a second item.
C12_Original ==
    (md # Idle /\ md.fn = "toc" /\ md.status = "returned" /\ OnlyHeadings(mdIn.elements)) =>
        /\ Balanced(md.table_of_contents)
        /\ Balanced(md.desktop)
        /\ (mdIn.elements = <<"h2", "h3", "h3", "h2">> /\ ~mdIn.link_references) =>
              md.table_of_contents = TocOfExample

----------------------------------------------------------------------------
(* generate_cite_notes: citation markers "[_cn description](link link)" of the html are
   numbered and replaced by references, and their footnotes are collected *)

MaxCites == 3       \* number of segments the html given to generate_cite_notes holds

CITE_NOTE == <<"[", "_", "c", "n", " ">>
ArchivePrefix == <<"h", "t", "t", "p", "s", ":", "/", "/", "w", "e", "b", ".", "a",
                   "r", "c", "h", "i", "v", "e", ".", "o", "r", "g", "/">>
HttpsPrefix == <<"h", "t", "t", "p", "s", ":", "/", "/">>
WwwPrefix == <<"w", "w", "w", ".">>

\* usize formatted by format!
RECURSIVE Dec(_)
Dec(n) == IF n < 10 THEN <<DigitChars[n + 1]>>
          ELSE Dec(n \div 10) \o <<DigitChars[(n % 10) + 1]>>

\* Url::parse and Url::host for the links of the model: an https URL has the host up
\* to the next "/", another scheme has no host, and a text without a scheme is an Err
UrlParse(link) ==
    IF StartsWith(link, HttpsPrefix)
    THEN LET rest == Slice(link, Len(HttpsPrefix), Len(link))
             slash == Find(<<"/">>, rest, 0, Len(rest))
             host == IF slash = -1 THEN rest ELSE Slice(rest, 0, slash)
         IN IF host = <<>> THEN [ok |-> FALSE, has_host |-> FALSE, host |-> <<>>]
            ELSE [ok |-> TRUE, has_host |-> TRUE, host |-> host]
    ELSE IF Find(Colon, link, 0, Len(link)) > 0
    THEN [ok |-> TRUE, has_host |-> FALSE, host |-> <<>>]
    ELSE [ok |-> FALSE, has_host |-> FALSE, host |-> <<>>]

\* str::trim_start_matches("www.")
RECURSIVE trim_start_matches_www(_)
trim_start_matches_www(s) ==
    IF StartsWith(s, WwwPrefix) THEN trim_start_matches_www(Slice(s, Len(WwwPrefix), Len(s)))
    ELSE s

\* format!("<li id=\"cite-note-{cite_note_id}\">")
CiteItemOpen(cite_note_id) == <<"<", "l", "i", " ", "i", "d", "=", "\"", "c", "i", "t",
                                "e", "-", "n", "o", "t", "e", "-">> \o Dec(cite_note_id)
                                      \o << "\"", ">">>

\* format!("<a href=\"{link}\">{host_name}</a>")
HostLink(link, host_name) == <<"<", "a", " ", "h", "r", "e", "f", "=", "\"">> \o link
      \o << "\"", ">">> \o host_name \o << "<", "/", "a", ">">>

\* format!(" - <a href=\"{link}\">archive</a>")
ArchiveLink(link) == <<" ", "-", " ", "<", "a", " ", "h", "r", "e", "f", "=", "\"">> \o link
      \o << "\"", ">", "a", "r", "c", "h", "i", "v", "e", "<", "/", "a", ">">>

\* the reference that replaces the marker in the html
CiteReference(cite_note_id) ==
    <<"<", "a", " ", "h", "r", "e", "f", "=", "\"", "#", "c", "i", "t", "e", "-", "n",
      "o", "t", "e", "-">> \o Dec(cite_note_id) \o << "\"", " ", "c", "l", "a", "s", "s", "=",
            "\"", "c", "i", "t", "e", "-", "n", "o", "t", "e", "\"", ">", "<", "s", "u", "p",
            ">", "[">>
    \o Dec(cite_note_id) \o <<"]", "<", "/", "s", "u", "p", ">", "<", "/", "a", ">">>

NoReferences == <<"U", "n", "f", "o", "r", "t", "u", "n", "a", "t", "e", "l", "l", "y",
                  ",", " ", "t", "h", "e", "r", "e", " ", "a", "r", "e", " ", "n", "o",
                  " ", "r", "e", "f", "e", "r", "e", "n", "c", "e", "s", " ", "i", "n",
                  " ", "t", "h", "i", "s", " ", "a", "r", "t", "i", "c", "l", "e", " ",
                  ":", "(">>

NoLink == [some |-> FALSE, text |-> <<>>]

\* the while loop of generate_cite_note_link over the links behind "](": every link
\* but the last is parsed and written with its host name
RECURSIVE CiteLinks(_, _, _, _)
CiteLinks(html, bracket_index, link, out) ==
    IF bracket_index >= Len(html)
    THEN [status |-> "ok", link |-> link, out |-> out]
    ELSE LET parsed == IF link.some THEN UrlParse(link.text)
                       ELSE [ok |-> TRUE, has_host |-> TRUE, host |-> <<>>]
         IN IF ~parsed.ok THEN [status |-> "err", link |-> link, out |-> out]
            ELSE IF ~parsed.has_host THEN [status |-> "panic", link |-> link, out |-> out]
            ELSE LET sp == Find(<<" ">>, html, bracket_index, Len(html))
                     end == IF sp = -1 THEN Len(html) - bracket_index ELSE sp
                 IN CiteLinks(html, bracket_index + end + 1,
                              [some |-> TRUE,
                               text |-> Slice(html, bracket_index, bracket_index + end)],
                              IF link.some
                              THEN out \o HostLink(link.text,
                                                   trim_start_matches_www(parsed.host))
                              ELSE out)

\* lines 406-416: the last link is written as the archive link, whatever its domain
ArchiveTail(link, out) ==
    IF link.some
    THEN [out |-> out \o ArchiveLink(link.text) \o LiClose,
          log |-> IF ~StartsWith(link.text, ArchivePrefix)
                  THEN <<"Cite note do not have link for 'web.archive.org'.">>
                  ELSE <<>>]
    ELSE [out |-> out \o LiClose, log |-> <<"Cite note do not have any link.">>]

\* generate_cite_note_link: Ok(()), an Err, or a panic; cite_note_html keeps what was
\* pushed before an Err
generate_cite_note_link(cite_note_html, html, cite_note_id) ==
    LET found == Find(<<"]", "(">>, html, 0, Len(html))
    IN IF found = -1
       THEN [status |-> "err", cite_note_html |-> cite_note_html, log |-> <<>>]
       ELSE LET description == trim(Slice(html, 0, found))
                opened == cite_note_html \o CiteItemOpen(cite_note_id)
                          \o (IF description = <<>> THEN <<>>
                              ELSE description \o <<" ", "-", " ">>)
                links == CiteLinks(html, found + 2, NoLink, opened)
            IN IF links.status # "ok"
               THEN [status |-> links.status, cite_note_html |-> links.out, log |-> <<>>]
               ELSE LET tail == ArchiveTail(links.link, links.out)
                    IN [status |-> "ok", cite_note_html |-> tail.out, log |-> tail.log]

\* the locals of generate_cite_notes before its loop
CiteStart(html) ==
    [fn |-> "cite", html |-> html, cite_note_html |-> <<>>, cite_note_id |-> 0,
     index |-> 0, status |-> "running", log |-> <<>>]

\* one turn of the while loop: the next "[_cn ", its ")" and its footnote
CiteIter(c, position) ==
    LET index == c.index + position
        index_with_cite == index + Len(CITE_NOTE)
        end == Find(<<")">>, c.html, index_with_cite, Len(c.html))
    IN IF end = -1
       THEN [c EXCEPT !.index = index + 1,
                      !.log = Append(@, "Unable to find closing bracket for cite note.")]
       ELSE LET cite_note_id == c.cite_note_id + 1
                link == generate_cite_note_link(
                            c.cite_note_html,
                            Slice(c.html, index_with_cite, index_with_cite + end),
                            cite_note_id)
            IN IF link.status = "panic"
               THEN [c EXCEPT !.index = index, !.cite_note_id = cite_note_id,
                              !.cite_note_html = link.cite_note_html,
                              !.status = "panic"]
               ELSE IF link.status = "err"
               THEN [c EXCEPT !.index = index + 1, !.cite_note_id = cite_note_id,
                              !.cite_note_html = link.cite_note_html,
                              !.log = Append(@, "Unable to generate cite note link")]
               ELSE [c EXCEPT !.index = index, !.cite_note_id = cite_note_id,
                              !.cite_note_html = link.cite_note_html,
                              !.log = @ \o link.log,
                              !.html = ReplaceRange(@, index,
                                                    index + end + Len(CITE_NOTE) + 1,
                                                    CiteReference(cite_note_id))]

\* behind the loop: the placeholder for an empty list
CiteEnd(c) ==
    [c EXCEPT !.cite_note_html = IF @ = <<>> THEN NoReferences ELSE @,
              !.status = "returned"]

\* the segments an html is made of: markers that are well formed, markers with a last
\* link outside the archive, without a link, without "](", with a link that is no
\* URL, with a link without a host, without ")", and plain text
CiteSegments ==
    << <<"[", "_", "c", "n", " ", "d", "]", "(", "h", "t", "t", "p", "s", ":", "/",
         "/", "w", "w", "w", ".", "a", ".", "o", "r", "g", "/", " ", "h", "t", "t",
         "p", "s", ":", "/", "/", "w", "e", "b", ".", "a", "r", "c", "h", "i", "v",
         "e", ".", "o", "r", "g", "/", "b", ")">>,
       <<"[", "_", "c", "n", " ", "]", "(", "h", "t", "t", "p", "s", ":", "/", "/",
         "a", ".", "o", "r", "g", "/", ")">>,
       <<"[", "_", "c", "n", " ", "d", "]", "(", ")">>,
       <<"[", "_", "c", "n", " ", "d", ")">>,
       <<"[", "_", "c", "n", " ", "d", "]", "(", "b", "a", "d", " ", "h", "t", "t",
         "p", "s", ":", "/", "/", "w", "e", "b", ".", "a", "r", "c", "h", "i", "v",
         "e", ".", "o", "r", "g", "/", "b", ")">>,
       <<"[", "_", "c", "n", " ", "d", "]", "(", "m", "a", "i", "l", "t", "o", ":",
         "x", " ", "h", "t", "t", "p", "s", ":", "/", "/", "a", ".", "o", "r", "g",
         "/", ")">>,
       <<"[", "_", "c", "n", " ", "d">>,
       <<"x", " ">> >>

CiteKinds == 1..Len(CiteSegments)

RECURSIVE CiteHtml(_)
CiteHtml(kinds) ==
    IF kinds = <<>> THEN <<>> ELSE CiteSegments[Head(kinds)] \o CiteHtml(Tail(kinds))

CiteInputs == UNION {[1..n -> CiteKinds] : n \in 0..MaxCites}

InitCite ==
    /\ ApplyIdle /\ RewriteIdle /\ ContentIdle
    /\ \E kinds \in CiteInputs :
          /\ mdIn = [kinds |-> kinds, html |-> CiteHtml(kinds)]
          /\ md = CiteStart(CiteHtml(kinds))

\* while let Some(position) = html[index..].find(CITE_NOTE)
CiteStep ==
    /\ md # Idle /\ md.fn = "cite" /\ md.status = "running"
    /\ LET position == Find(CITE_NOTE, md.html, md.index, Len(md.html))
       IN /\ position # -1
          /\ md' = CiteIter(md, position)
    /\ UNCHANGED <<mdIn, applyVars, rewriteVars, contentVars>>

\* the loop finds no further marker and the footnotes are returned
CiteReturn ==
    /\ md # Idle /\ md.fn = "cite" /\ md.status = "running"
    /\ Find(CITE_NOTE, md.html, md.index, Len(md.html)) = -1
    /\ md' = CiteEnd(md)
    /\ UNCHANGED <<mdIn, applyVars, rewriteVars, contentVars>>

NextCite == CiteStep \/ CiteReturn

SpecCite == InitCite /\ [][NextCite]_vars

----------------------------------------------------------------------------
(* Claims about the citations (SpecCite) *)

\* the number of places of s where sub starts
Occurrences(sub, s) ==
    Cardinality({i \in 0..(Len(s) - Len(sub)) : Slice(s, i, i + Len(sub)) = sub})

\* the decimal number written at pos
RECURSIVE ReadNumber(_, _, _)
ReadNumber(s, pos, acc) ==
    IF pos < Len(s) /\ s[pos + 1] \in Range(DigitChars)
    THEN ReadNumber(s, pos + 1, 10 * acc + ParseDigit(s[pos + 1]))
    ELSE acc

\* the numbers written behind the occurrences of label, in the order of the text
RECURSIVE NumbersBehind(_, _, _)
NumbersBehind(label, s, from) ==
    LET found == Find(label, s, from, Len(s))
    IN IF found = -1 THEN <<>>
       ELSE <<ReadNumber(s, from + found + Len(label), 0)>>
            \o NumbersBehind(label, s, from + found + Len(label))

\* the numbers of the references left in the document and of the footnotes
ReferenceNumbers(c) == NumbersBehind(<<"<", "s", "u", "p", ">", "[">>, c.html, 0)
FootnoteNumbers(c) == NumbersBehind(<<"<", "l", "i", " ", "i", "d", "=", "\"", "c",
                                      "i", "t", "e", "-", "n", "o", "t", "e", "-">>, c.cite_note_html, 0)

Consecutive(numbers) == \A i \in 1..Len(numbers) : numbers[i] = i

CiteReturned == md # Idle /\ md.fn = "cite" /\ md.status = "returned"

\* C13 as claimed: after generate_cite_notes the references of the document and the
\* footnotes carry the numbers 1, 2, ..., n in document order, without a gap and
\* without a repetition, whatever the markers hold
C13_Original ==
    CiteReturned =>
        /\ Consecutive(ReferenceNumbers(md))
        /\ Consecutive(FootnoteNumbers(md))
        /\ Len(ReferenceNumbers(md)) = Len(FootnoteNumbers(md))

\* a "[_cn " of the text whose payload up to the next ")" holds no "]("
RECURSIVE HasMarkerWithoutSeparator(_, _)
HasMarkerWithoutSeparator(html, from) ==
    LET found == Find(CITE_NOTE, html, from, Len(html))
        payload_start == from + found + Len(CITE_NOTE)
        end == Find(<<")">>, html, payload_start, Len(html))
    IN /\ found # -1
       /\ \/ /\ end # -1
             /\ Find(<<"]", "(">>, html, payload_start, payload_start + end) = -1
          \/ HasMarkerWithoutSeparator(html, from + found + 1)

\* C17 as claimed: a marker without "](" is fatal to the file: from the moment the
\* error is met no reference and no footnote is written any more, and
\* generate_cite_notes hands no footnote list back to the analysis
C17_Original ==
    [][(md # Idle /\ md.fn = "cite" /\ HasMarkerWithoutSeparator(mdIn.html, 0)
        /\ "Unable to generate cite note link" \in Range(md.log)) =>
          /\ md'.html = md.html
          /\ md'.cite_note_html = md.cite_note_html
          /\ md'.status # "returned"
      ]_vars

\* the kinds of CiteSegments that are citations generate_cite_note_link accepts
AcceptedKinds == {1, 2, 3, 8}
ArchiveKinds == {1}

\* C18 as claimed: every accepted citation has its footnote item, opened and closed,
\* and the link labelled archive stands in the items whose last link is on the
\* archive domain and in no other
C18_Original ==
    (CiteReturned /\ Range(mdIn.kinds) \subseteq AcceptedKinds) =>
        LET citations == Cardinality({i \in 1..Len(mdIn.kinds) : mdIn.kinds[i] # 8})
            archived == Cardinality({i \in 1..Len(mdIn.kinds) :
                                        mdIn.kinds[i] \in ArchiveKinds})
        IN /\ citations > 0 => Occurrences(<<"<", "l", "i", " ", "i", "d", "=">>,
              md.cite_note_html) = citations
           /\ citations > 0 => Occurrences(LiClose, md.cite_note_html) = citations
           /\ Occurrences(<<"\"", ">", "a", "r", "c", "h", "i", "v", "e", "<", "/",
                            "a", ">">>, md.cite_note_html) = archived

----------------------------------------------------------------------------
(* create_md_post_list as a function of the preliminary outputs (SpecPostList) *)

MaxPosts == 5       \* number of content files the preliminary outputs are drawn from

\* the preliminary outputs in the order join_next handed them over: every file at
\* most once
PostListInputs ==
    {outputs \in UNION {[1..n -> 1..MaxPosts] : n \in 0..MaxPosts} :
        \A i, j \in 1..Len(outputs) : outputs[i] = outputs[j] => i = j}

InitPostList ==
    /\ ApplyIdle /\ RewriteIdle /\ ContentIdle
    /\ \E outputs \in PostListInputs :
          /\ mdIn = [outputs |-> outputs]
          /\ md = [fn |-> "post_list", status |-> "running", list |-> <<>>]

\* content.rs:91, Ok: the list of the cards
PostListBuilt ==
    /\ md # Idle /\ md.fn = "post_list" /\ md.status = "running"
    /\ md' = [md EXCEPT !.status = "returned", !.list = create_md_post_list(mdIn.outputs)]
    /\ UNCHANGED <<mdIn, applyVars, rewriteVars, contentVars>>

\* content.rs:91, Err: the `?` returns it
PostListFailed ==
    /\ md # Idle /\ md.fn = "post_list" /\ md.status = "running"
    /\ md' = [md EXCEPT !.status = "err"]
    /\ UNCHANGED <<mdIn, applyVars, rewriteVars, contentVars>>

NextPostList == PostListBuilt \/ PostListFailed

SpecPostList == InitPostList /\ [][NextPostList]_vars

\* the place of a file in the preliminary outputs, and the file a card stands for
PlaceOf(outputs, f) == CHOOSE i \in 1..Len(outputs) : outputs[i] = f
CardFile(outputs, card) == CHOOSE f \in Range(outputs) : FileChar(f) = card

\* C14: the post list holds one card for every blog entry that is no draft and no
\* other card; the cards are ordered by publish date, newest first, and entries of
\* one date keep the order of the input; D1 > D2 > D3 with D3 a draft gives D1, D2
C14_PostList ==
    (md # Idle /\ md.fn = "post_list" /\ md.status = "returned") =>
        LET outputs == mdIn.outputs
            list == md.list
        IN /\ \A f \in Range(outputs) :
                 Count(list, FileChar(f)) = IF FileContent(f).blog /\ ~FileContent(f).draft
                                            THEN 1 ELSE 0
           /\ \A i \in 1..Len(list) : \E f \in Range(outputs) : FileChar(f) = list[i]
           /\ \A i, j \in 1..Len(list) :
                 i < j =>
                    LET a == CardFile(outputs, list[i])
                        b == CardFile(outputs, list[j])
                    IN \/ FileContent(a).date > FileContent(b).date
                       \/ /\ FileContent(a).date = FileContent(b).date
                          /\ PlaceOf(outputs, a) < PlaceOf(outputs, b)
           /\ outputs = <<3, 1, 2>> => list = <<"2", "1">>

C14_Witness ==
    /\ md # Idle /\ md.fn = "post_list" /\ md.status = "returned"
    /\ mdIn.outputs = <<4, 5, 3, 1, 2>>
    /\ md.list = <<"4", "2", "1">>

----------------------------------------------------------------------------
(* get_id_from_name as a function of its input (SpecSlug) *)

MaxName == 4        \* length of the names given to get_id_from_name

NameChars == {"1", ".", "a", "B", " ", "_", "!", "-"}

Names == UNION {[1..n -> NameChars] : n \in 0..MaxName}

InitSlug ==
    /\ ApplyIdle /\ RewriteIdle /\ ContentIdle
    /\ \E input \in Names :
          /\ mdIn = [name |-> input]
          /\ md = [fn |-> "slug", status |-> "running", id |-> <<>>]

SlugReturn ==
    /\ md # Idle /\ md.fn = "slug" /\ md.status = "running"
    /\ md' = [md EXCEPT !.status = "returned", !.id = get_id_from_name(mdIn.name)]
    /\ UNCHANGED <<mdIn, applyVars, rewriteVars, contentVars>>

NextSlug == SlugReturn

SpecSlug == InitSlug /\ [][NextSlug]_vars

SlugAlphabet == {"a", "b", "1", "-"}

\* the name behind the prefix rule: one leading digit, then one leading "."
PrefixLen(input) ==
    LET d == IF Len(input) >= 1 /\ input[1] = "1" THEN 1 ELSE 0
        p == IF Len(input) >= d + 1 /\ input[d + 1] = "." THEN 1 ELSE 0
    IN d + p

\* what the character rule gives for the characters of part, place by place
SlugOf(part) ==
    LET kept == SelectSeq(part, LAMBDA c : c \in {"1", "a", "B", " ", "_"})
    IN [i \in 1..Len(kept) |->
          IF kept[i] \in {" ", "_"} THEN "-"
          ELSE IF kept[i] = "B" THEN "b" ELSE kept[i]]

\* part without the spaces at its two ends
Inner(part) ==
    LET solid == {i \in 1..Len(part) : part[i] # " "}
    IN IF solid = {} THEN <<>>
       ELSE SubSeq(part, CHOOSE i \in solid : \A j \in solid : i <= j,
                         CHOOSE i \in solid : \A j \in solid : i >= j)

SlugReturned == md # Idle /\ md.fn = "slug" /\ md.status = "returned"

\* C15: the slug holds lowercase letters, digits and "-" only; one leading digit and
\* then one leading "." are removed, the spaces at the two ends of the rest are
\* removed, and of what remains every letter and digit is kept in lowercase, every
\* space and "_" is one "-", and every other character is dropped
C15_Slug ==
    SlugReturned =>
        /\ Range(md.id) \subseteq SlugAlphabet
        /\ md.id = SlugOf(Inner(SubSeq(mdIn.name, PrefixLen(mdIn.name) + 1,
                                       Len(mdIn.name))))

C15_Witness ==
    /\ SlugReturned
    /\ mdIn.name = <<"1", " ", "B", "_">>
    /\ md.id = <<"b", "-">>

\* C15 as claimed: every space of the name behind the prefix becomes one "-"
C15_Original ==
    SlugReturned =>
        /\ Range(md.id) \subseteq SlugAlphabet
        /\ md.id = SlugOf(SubSeq(mdIn.name, PrefixLen(mdIn.name) + 1, Len(mdIn.name)))

----------------------------------------------------------------------------
(* Claims about the heading upgrade (SpecRewrite) *)

HeaderTextClass == <<" ", "c", "l", "a", "s", "s", "=", "\"", "h", "e", "a", "d", "e",
                     "r", "-", "t", "e", "x", "t", "\"", " ", "i", "d", "=", "\"">>
SelfLinkOpen == <<"\"", ">", "<", "a", " ", "h", "r", "e", "f", "=", "\"", "#">>
SelfLinkClose == <<"<", "/", "a", ">", "<", "/", "h">>

\* C16 as claimed: a heading is upgraded at most once: whatever restarts happened,
\* the buffer holds one header-text class with its id, one self link and one closed
\* anchor in front of the end tag for every upgrade, and no heading carries two
C16_Original ==
    (pf # Idle /\ pf.status \in {"running", "eof"}) =>
        /\ Occurrences(HeaderTextClass, pf.buffer) = Occurrences(SelfLinkClose, pf.buffer)
        /\ Occurrences(SelfLinkOpen, pf.buffer) = Occurrences(SelfLinkClose, pf.buffer)
        /\ Occurrences(AnchorClose, pf.buffer) = Occurrences(SelfLinkClose, pf.buffer)
        /\ pf.upgraded = Occurrences(SelfLinkClose, pf.buffer)

----------------------------------------------------------------------------
(* The front matter of a markdown file: VariableValue::from_str, extract_variables,
   process_variables *)

MaxFaults == 2      \* number of places in which a file departs from a complete one

VARIABLE_KEY == <<"-", "-", "-">>
Newline == <<"\n">>

\* str::lines
RECURSIVE Lines(_)
Lines(text) ==
    IF text = <<>> THEN <<>>
    ELSE LET nl == Find(Newline, text, 0, Len(text))
         IN IF nl = -1 THEN <<text>>
            ELSE <<Slice(text, 0, nl)>> \o Lines(Slice(text, nl + 1, Len(text)))

\* str::split(',')
RECURSIVE SplitComma(_)
SplitComma(text) ==
    LET comma == Find(<<",">>, text, 0, Len(text))
    IN IF comma = -1 THEN <<text>>
       ELSE <<Slice(text, 0, comma)>> \o SplitComma(Slice(text, comma + 1, Len(text)))

EndsWith(s, suffix) ==
    Len(s) >= Len(suffix) /\ SubSeq(s, Len(s) - Len(suffix) + 1, Len(s)) = suffix

\* str::parse::<f64> for the values of the model: digits with at most one "."
ParsesAsNumber(text) ==
    /\ \E i \in 1..Len(text) : text[i] \in Digits
    /\ \A i \in 1..Len(text) : text[i] \in Digits \/ text[i] = "."
    /\ Cardinality({i \in 1..Len(text) : text[i] = "."}) <= 1

\* str::parse::<DateTime<Utc>> for the values of the model
ValidDates == { <<"2", "0", "2", "4", "-", "0", "1", "-", "0", "2", "T", "0", "3", ":",
                  "0", "4", ":", "0", "5", "Z">> }
ParsesAsDate(text) == text \in ValidDates

StringValue(str) == [type |-> "string", text |-> str, items |-> <<>>]
BoolValue(text) == [type |-> "bool", text |-> text, items |-> <<>>]
NumberValue(text) == [type |-> "number", text |-> text, items |-> <<>>]
DateValue(text) == [type |-> "date", text |-> text, items |-> <<>>]
ArrayValue(items) == [type |-> "array", text |-> <<>>, items |-> items]

\* VariableValue::from_str: Ok(value) with the warnings logged, an Err, or the panic of
\* the slice [1..len - 1] of a value of one character
RECURSIVE from_str(_)
from_str(raw) ==
    LET value == trim(raw)
        failed(status) == [status |-> status, value |-> StringValue(<<>>), log |-> <<>>]
    IN IF StartsWith(value, <<"[">>)
       THEN IF Len(value) < 2 THEN failed("panic")
            ELSE LET parts == SplitComma(Slice(value, 1, Len(value) - 1))
                     parsed == [i \in 1..Len(parts) |-> from_str(parts[i])]
                     bad == {i \in 1..Len(parts) : parsed[i].status # "ok"}
                 IN IF bad # {}
                    THEN failed(parsed[CHOOSE i \in bad : \A j \in bad : i <= j].status)
                    ELSE [status |-> "ok",
                          value |-> ArrayValue([i \in 1..Len(parts) |-> parsed[i].value]),
                          log |-> Concat([i \in 1..Len(parts) |-> parsed[i].log])
                                  \o (IF ~EndsWith(value, <<"]">>)
                                      THEN <<"Array variable is not closed with ']' character.">>
                                      ELSE <<>>)]
       ELSE IF StartsWith(value, <<"\"">>)
       THEN IF Len(value) < 2 THEN failed("panic")
            ELSE [status |-> "ok",
                  value |-> StringValue(trim(Slice(value, 1, Len(value) - 1))),
                  log |-> IF ~EndsWith(value, <<"\"">>)
                          THEN <<"String variable is not closed with '\"' character.">>
                          ELSE <<>>]
       ELSE IF value = <<"t", "r", "u", "e">> \/ value = <<"f", "a", "l", "s", "e">>
       THEN [status |-> "ok", value |-> BoolValue(value), log |-> <<>>]
       ELSE IF ParsesAsNumber(value)
       THEN [status |-> "ok", value |-> NumberValue(value), log |-> <<>>]
       ELSE IF ParsesAsDate(value)
       THEN [status |-> "ok", value |-> DateValue(value), log |-> <<>>]
       ELSE failed("err")

NoVariables == [k \in {} |-> StringValue(<<>>)]

\* the for loop of extract_variables over the lines of the block: a line without ":"
\* is passed over, the first value that is no value ends the loop
RECURSIVE ParseLines(_, _, _)
ParseLines(lines, result, logged) ==
    IF lines = <<>> THEN [status |-> "ok", variables |-> result, log |-> logged]
    ELSE LET line == Head(lines)
             colon == Find(Colon, line, 0, Len(line))
         IN IF colon = -1 THEN ParseLines(Tail(lines), result, logged)
            ELSE LET parsed == from_str(Slice(line, colon + 1, Len(line)))
                 IN IF parsed.status # "ok"
                    THEN [status |-> parsed.status, variables |-> result, log |-> logged]
                    ELSE ParseLines(Tail(lines),
                                    (trim(Slice(line, 0, colon)) :> parsed.value) @@ result,
                                    logged \o parsed.log)

\* extract_variables: the variables of the first "---" ... "---" block, which is removed
\* from file_content; without a block no variables; an Err or a panic leaves the text
extract_variables(file_content) ==
    LET start == Find(VARIABLE_KEY, file_content, 0, Len(file_content))
        start_with_key == start + Len(VARIABLE_KEY)
        end == IF start = -1 THEN -1
               ELSE Find(VARIABLE_KEY, file_content, start_with_key, Len(file_content))
    IN IF start = -1 \/ end = -1
       THEN [status |-> "ok", variables |-> NoVariables, file_content |-> file_content,
             log |-> <<>>]
       ELSE LET parsed == ParseLines(
                              Lines(Slice(file_content, start_with_key, start_with_key + end)),
                              NoVariables, <<>>)
            IN [status |-> parsed.status, variables |-> parsed.variables, log |-> parsed.log,
                file_content |->
                    IF parsed.status = "ok"
                    THEN ReplaceRange(file_content, start,
                                      start_with_key + end + Len(VARIABLE_KEY), <<>>)
                    ELSE file_content]

KeyTitle == <<"t", "i", "t", "l", "e">>
KeyDescription == <<"d", "e", "s", "c", "r", "i", "p", "t", "i", "o", "n">>
KeyTags == <<"t", "a", "g", "s">>
KeyDate == <<"d", "a", "t", "e">>
KeyDraft == <<"d", "r", "a", "f", "t">>
KeyTechnical == <<"t", "e", "c", "h", "n", "i", "c", "a", "l">>
KeyDifficulty == <<"d", "i", "f", "f", "i", "c", "u", "l", "t", "y">>

NoError == [msg |-> "", key |-> <<>>]

\* the for loop of process_variables over title, description and date: a missing key
\* is an Err; a value that is no array is inserted as md_<key>
RECURSIVE InsertMdKeys(_, _, _)
InsertMdKeys(keys, md_variables, inserted) ==
    IF keys = <<>> THEN [error |-> NoError, inserted |-> inserted]
    ELSE IF Head(keys) \notin DOMAIN md_variables
    THEN [error |-> [msg |-> "Unable to find markdown variable with key", key |-> Head(keys)],
          inserted |-> inserted]
    ELSE InsertMdKeys(Tail(keys), md_variables,
                      IF md_variables[Head(keys)].type = "array" THEN inserted
                      ELSE inserted \cup {<<"m", "d", "_">> \o Head(keys)})

\* MarkdownContent::get_element_string, _string_vec, _date, _bool, _number: the Err
\* of one field, or NoError
get_element(key, kind, md_variables) ==
    IF key \notin DOMAIN md_variables
    THEN [msg |-> "Unable to find variable with key", key |-> key]
    ELSE LET value == md_variables[key]
         IN IF kind = "string_vec"
            THEN IF value.type # "array"
                 THEN [msg |-> "Variable is not an array.", key |-> key]
                 ELSE IF \E i \in 1..Len(value.items) : value.items[i].type # "string"
                 THEN [msg |-> "Variable is not an array of strings.", key |-> key]
                 ELSE NoError
            ELSE IF value.type = kind THEN NoError
            ELSE [msg |-> CASE kind = "string" -> "Variable is not a string."
                            [] kind = "date" -> "Variable is not a date."
                            [] kind = "bool" -> "Variable is not a boolean."
                            [] kind = "number" -> "Variable is not a number.",
                  key |-> key]

\* the fields of MarkdownContent in the order process_variables reads them
RequiredFields ==
    << [key |-> KeyTitle, kind |-> "string"],
       [key |-> KeyDescription, kind |-> "string"],
       [key |-> KeyTags, kind |-> "string_vec"],
       [key |-> KeyDate, kind |-> "date"],
       [key |-> KeyDraft, kind |-> "bool"],
       [key |-> KeyTechnical, kind |-> "bool"],
       [key |-> KeyDifficulty, kind |-> "number"] >>

\* the struct expression of process_variables: the first `?` that fails returns
RECURSIVE FirstFieldError(_, _)
FirstFieldError(fields, md_variables) ==
    IF fields = <<>> THEN NoError
    ELSE LET error == get_element(Head(fields).key, Head(fields).kind, md_variables)
         IN IF error # NoError THEN error
            ELSE FirstFieldError(Tail(fields), md_variables)

\* process_variables: Ok(MarkdownContent) or the Err of the first field that is
\* missing or of another type; the keys inserted into the variables before it
process_variables(md_variables) ==
    LET looped == InsertMdKeys(<<KeyTitle, KeyDescription, KeyDate>>, md_variables, {})
        error == IF looped.error # NoError THEN looped.error
                 ELSE FirstFieldError(RequiredFields, md_variables)
    IN [status |-> IF error = NoError THEN "ok" ELSE "err",
        error |-> error, inserted |-> looped.inserted]

\* pulldown_cmark's Parser and push_html for the texts of the model, line by line: an
\* ATX heading, a thematic break, an empty line, or a paragraph
RenderLine(line) ==
    IF line = <<>> THEN <<>>
    ELSE IF StartsWith(line, <<"#", "#", " ">>)
    THEN <<"<", "h", "2", ">">> \o Slice(line, 3, Len(line)) \o <<"<", "/", "h", "2", ">">>
          \o Newline
    ELSE IF line = <<"*", "*", "*">> \/ line = <<"-", "-", "-">> THEN <<"<", "h", "r", " ",
          "/", ">">> \o Newline
    ELSE <<"<", "p", ">">> \o line \o <<"<", "/", "p", ">">> \o Newline

Render(file_content) ==
    LET lines == Lines(file_content)
    IN Concat([i \in 1..Len(lines) |-> RenderLine(lines[i])])

\* a call of Rust: the argument is evaluated once, before the call
ByValue(Op(_), arg) == CHOOSE returned \in {Op(value) : value \in {arg}} : TRUE

\* generate_cite_notes, run to its return or its panic
RECURSIVE CiteRun(_)
CiteRun(c) ==
    IF c.status # "running" THEN c
    ELSE LET position == Find(CITE_NOTE, c.html, c.index, Len(c.html))
         IN IF position = -1 THEN CiteEnd(c) ELSE ByValue(CiteRun, CiteIter(c, position))

\* generate_table_of_contents, run to its return or its panic
RECURSIVE TocRun(_)
TocRun(t) ==
    IF t.status # "running" THEN t
    ELSE IF t.index > Len(t.html) THEN [t EXCEPT !.status = "panic"]
    ELSE LET position == Find(HOpen, t.html, t.index, Len(t.html))
         IN IF position = -1 THEN TocEnd(t) ELSE ByValue(TocRun, TocIter(t, position))

\* the variables set_variables inserts behind process_variables
ContentKeys ==
    { <<"m", "d", "_", "w", "o", "r", "d", "_", "c", "o", "u", "n", "t">>, <<"m", "d", "_",
          "r", "e", "a", "d", "_", "t", "i", "m", "e">>, << "m", "d", "_", "c", "o", "n", "t",
          "e", "n", "t">>, << "m", "d", "_", "c", "i", "t", "e", "_", "n", "o", "t", "e", "s">>,
      <<"m", "d", "_", "t", "a", "b", "l", "e", "_", "o", "f", "_", "c", "o", "n", "t",
        "e", "n", "t", "s", "_", "d", "e", "s", "k", "t", "o", "p">>, << "m", "d", "_", "t",
              "a", "b", "l", "e", "_", "o", "f", "_", "c", "o", "n", "t", "e", "n", "t", "s",
              "_", "m", "o", "b", "i", "l", "e">>, << "m", "d", "_", "t", "a", "g", "s">> }

----------------------------------------------------------------------------
(* SpecAnalysis: analyze_file on a markdown file, through set_variables *)

\* the lines of a complete front matter, and of one with a value of another type
GoodLines ==
    << <<"t", "i", "t", "l", "e", ":", " ", "\"", "T", "\"">>, <<"d", "e", "s", "c", "r", "i",
          "p", "t", "i", "o", "n", ":", " ", "\"", "D", "\"">>, << "t", "a", "g", "s", ":",
          " ", "[", "\"", "a", "\"", ",", "\"", "b", "\"", "]">>,
       <<"d", "a", "t", "e", ":", " ", "2", "0", "2", "4", "-", "0", "1", "-", "0",
         "2", "T", "0", "3", ":", "0", "4", ":", "0", "5", "Z">>, << "d", "r", "a", "f", "t",
               ":", " ", "f", "a", "l", "s", "e">>, << "t", "e", "c", "h", "n", "i", "c", "a",
               "l", ":", " ", "t", "r", "u", "e">>,
       <<"d", "i", "f", "f", "i", "c", "u", "l", "t", "y", ":", " ", "2">> >>

WrongLines ==
    << <<"t", "i", "t", "l", "e", ":", " ", "5">>, <<"d", "e", "s", "c", "r", "i", "p",
                                                     "t", "i", "o", "n", ":", " ", "t",
                                                     "r", "u", "e">>, << "t", "a", "g", "s",
                                                           ":", " ", "\"", "a", "\"">>, << "d",
                                                           "a", "t", "e", ":", " ", "\"", "x",
                                                           "\"">>,
       <<"d", "r", "a", "f", "t", ":", " ", "1">>, <<"t", "e", "c", "h", "n", "i", "c",
                                                     "a", "l", ":", " ", "\"", "n",
                                                     "o", "\"">>, << "d", "i", "f", "f", "i",
                                                           "c", "u", "l", "t", "y", ":", " ",
                                                           "f", "a", "l", "s", "e">> >>

MixedTagsLine == <<"t", "a", "g", "s", ":", " ", "[", "\"", "a", "\"", ",", "1", "]">>

\* a title written without quotes
BareTitleLine == <<"t", "i", "t", "l", "e", ":", " ", "T">>

\* a further line of the block: a value that is no value, a lone quote, a line
\* without ":", a string that is not closed
ExtraLines ==
    [unparsable |-> <<"k", ":", " ", "z", "z">>, lone_quote |-> <<"k", ":", " ", "\"">>,
          no_colon |-> << "j", "u", "n", "k">>,
     open_quote |-> <<"k", ":", " ", "\"", "a", "b">>]

\* what follows the front matter: a paragraph, a heading, a thematic break, a
\* citation marker without "]("
Bodies ==
    { Newline \o <<"x">> \o Newline,
      Newline \o <<"#", "#", " ", "a">> \o Newline,
      Newline \o <<"*", "*", "*">> \o Newline,
      Newline \o <<"[", "_", "c", "n", " ", "d", ")">> \o Newline }

FieldDims == 1..Len(RequiredFields)
ExtraDim == Len(RequiredFields) + 1
DelimiterDim == Len(RequiredFields) + 2
PrefixDim == Len(RequiredFields) + 3

\* the ways in which a file departs from a complete one
Faults ==
    << [dim |-> 1, variant |-> "missing"], [dim |-> 1, variant |-> "wrong"],
       [dim |-> 1, variant |-> "bare"],
       [dim |-> 2, variant |-> "missing"], [dim |-> 2, variant |-> "wrong"],
       [dim |-> 3, variant |-> "missing"], [dim |-> 3, variant |-> "wrong"],
       [dim |-> 3, variant |-> "mixed"],
       [dim |-> 4, variant |-> "missing"], [dim |-> 4, variant |-> "wrong"],
       [dim |-> 5, variant |-> "missing"], [dim |-> 5, variant |-> "wrong"],
       [dim |-> 6, variant |-> "missing"], [dim |-> 6, variant |-> "wrong"],
       [dim |-> 7, variant |-> "missing"], [dim |-> 7, variant |-> "wrong"],
       [dim |-> ExtraDim, variant |-> "unparsable"],
       [dim |-> ExtraDim, variant |-> "lone_quote"],
       [dim |-> ExtraDim, variant |-> "no_colon"],
       [dim |-> ExtraDim, variant |-> "open_quote"],
       [dim |-> DelimiterDim, variant |-> "unclosed"],
       [dim |-> DelimiterDim, variant |-> "absent"],
       [dim |-> PrefixDim, variant |-> "text"] >>

FaultChoices ==
    {choice \in UNION {[1..n -> 1..Len(Faults)] : n \in 0..MaxFaults} :
        \A i, j \in 1..Len(choice) :
            i < j => choice[i] < choice[j] /\ Faults[choice[i]].dim # Faults[choice[j]].dim}

VariantOf(choice, dim) ==
    LET hits == {i \in 1..Len(choice) : Faults[choice[i]].dim = dim}
    IN IF hits = {} THEN "good" ELSE Faults[choice[CHOOSE i \in hits : TRUE]].variant

FieldLine(choice, field) ==
    CASE VariantOf(choice, field) = "good" -> GoodLines[field] \o Newline
      [] VariantOf(choice, field) = "wrong" -> WrongLines[field] \o Newline
      [] VariantOf(choice, field) = "mixed" -> MixedTagsLine \o Newline
      [] VariantOf(choice, field) = "bare" -> BareTitleLine \o Newline
      [] VariantOf(choice, field) = "missing" -> <<>>

\* the text of the file: the block between its delimiters, in front of the body
FileText(choice, body) ==
    LET extra == VariantOf(choice, ExtraDim)
        block == Newline
                 \o (IF extra = "good" THEN <<>> ELSE ExtraLines[extra] \o Newline)
                 \o Concat([field \in FieldDims |-> FieldLine(choice, field)])
        delimiters == VariantOf(choice, DelimiterDim)
    IN (IF VariantOf(choice, PrefixDim) = "text" THEN <<"t">> ELSE <<>>)
       \o (IF delimiters = "absent" THEN <<>>
           ELSE VARIABLE_KEY \o block
                \o (IF delimiters = "unclosed" THEN <<>> ELSE VARIABLE_KEY))
       \o body

InitAnalysis ==
    /\ ApplyIdle /\ RewriteIdle /\ ContentIdle
    /\ \E choice \in FaultChoices, body \in Bodies :
          /\ mdIn = [choice |-> choice, body |-> body, file_content |-> FileText(choice, body)]
          /\ md = [fn |-> "set_variables", stage |-> "read", status |-> "running",
                   file_content |-> <<>>, md_variables |-> NoVariables, html |-> <<>>,
                   cite_notes |-> <<>>, desktop |-> <<>>, mobile |-> <<>>,
                   inserted |-> {}, error |-> NoError, has_content |-> FALSE,
                   output |-> FALSE, log |-> <<>>]

\* line 137: fs::read_to_string(path).await?
ReadFile ==
    /\ md # Idle /\ md.fn = "set_variables" /\ md.status = "running" /\ md.stage = "read"
    /\ \E read \in BOOLEAN :
          md' = IF read
                THEN [md EXCEPT !.stage = "extract", !.file_content = mdIn.file_content]
                ELSE [md EXCEPT !.status = "err",
                                !.error = [msg |-> "io::Error", key |-> <<>>]]
    /\ UNCHANGED <<mdIn, applyVars, rewriteVars, contentVars>>

\* line 138: extract_variables(&mut file_content)?
ExtractVariables ==
    /\ md # Idle /\ md.fn = "set_variables" /\ md.status = "running"
    /\ md.stage = "extract"
    /\ \E extracted \in {extract_variables(md.file_content)} :
          md' = IF extracted.status = "ok"
                THEN [md EXCEPT !.stage = "render",
                                !.file_content = extracted.file_content,
                                !.md_variables = extracted.variables,
                                !.log = @ \o extracted.log]
                ELSE [md EXCEPT !.status = extracted.status,
                                !.file_content = extracted.file_content,
                                !.log = @ \o extracted.log,
                                !.error = IF extracted.status = "err"
                                          THEN [msg |-> "chrono::ParseError", key |-> <<>>]
                                          ELSE NoError]
    /\ UNCHANGED <<mdIn, applyVars, rewriteVars, contentVars>>

\* lines 141-147: the markdown is rendered, the citations and the table of contents
\* are generated; process_variables has not been polled yet
RenderMarkdown ==
    /\ md # Idle /\ md.fn = "set_variables" /\ md.status = "running"
    /\ md.stage = "render"
    /\ \E rendered \in {Render(md.file_content)} :
       \E cited \in {CiteRun(CiteStart(rendered))} :
       \E toc \in {TocRun(TocStart(cited.html, TRUE))} :
          md' = IF cited.status = "panic" \/ toc.status = "panic"
                THEN [md EXCEPT !.status = "panic", !.log = @ \o cited.log]
                ELSE [md EXCEPT !.stage = "await", !.html = cited.html,
                                !.cite_notes = cited.cite_note_html,
                                !.desktop = toc.desktop,
                                !.mobile = toc.table_of_contents,
                                !.log = @ \o cited.log]
    /\ UNCHANGED <<mdIn, applyVars, rewriteVars, contentVars>>

\* lines 149-169: process_variables.await?, then the variables of the content
AwaitProcessVariables ==
    /\ md # Idle /\ md.fn = "set_variables" /\ md.status = "running"
    /\ md.stage = "await"
    /\ \E processed \in {process_variables(md.md_variables)} :
          md' = IF processed.status = "ok"
                THEN [md EXCEPT !.status = "ok", !.has_content = TRUE,
                                !.inserted = processed.inserted \cup ContentKeys]
                ELSE [md EXCEPT !.status = "err", !.error = processed.error,
                                !.inserted = processed.inserted]
    /\ UNCHANGED <<mdIn, applyVars, rewriteVars, contentVars>>

\* analyze_file, lines 37-52: set_variable.await? and template_path.await?, then the
\* PreliminaryAnalysisOutput
AnalyzeFileReturn ==
    /\ md # Idle /\ md.fn = "set_variables" /\ md.status = "ok" /\ md.stage = "await"
    /\ \E template \in BOOLEAN :
          md' = IF template THEN [md EXCEPT !.stage = "returned", !.output = TRUE]
                ELSE [md EXCEPT !.stage = "returned", !.status = "err",
                                !.error = [msg |-> "Template not found for file", key |-> <<>>]]
    /\ UNCHANGED <<mdIn, applyVars, rewriteVars, contentVars>>

NextAnalysis ==
    ReadFile \/ ExtractVariables \/ RenderMarkdown \/ AwaitProcessVariables
    \/ AnalyzeFileReturn

SpecAnalysis == InitAnalysis /\ [][NextAnalysis]_vars

\* ---------------------------------------------------------------------------
\* Claims about the front matter (SpecAnalysis)
\* ---------------------------------------------------------------------------

\* the file was written with both delimiters of the block
CompleteBlock == VariantOf(mdIn.choice, DelimiterDim) = "good"

\* the text of the file without the span from its first delimiter through its
\* second one
WithoutBlock ==
    (IF VariantOf(mdIn.choice, PrefixDim) = "text" THEN <<"t">> ELSE <<>>) \o mdIn.body

\* extract_variables has run on the text of the file
Extracted ==
    /\ md # Idle /\ md.fn = "set_variables"
    /\ \/ md.stage \in {"render", "await", "returned"}
       \/ md.stage = "extract" /\ md.status # "running"

ExtractSucceeded == Extracted /\ md.stage # "extract"

\* C19: without a complete block extract_variables returns an empty
\* map and leaves the text unchanged; with a complete block it removes from the
\* text exactly the span from the first delimiter through the second one; when a
\* value of the block fails to parse an error is returned and the text is
\* unchanged.  Every run of extract_variables ends in one of these ways.
C19_Original ==
    Extracted =>
        /\ ~CompleteBlock =>
              /\ ExtractSucceeded
              /\ md.md_variables = NoVariables
              /\ md.file_content = mdIn.file_content
        /\ CompleteBlock =>
              \/ ExtractSucceeded /\ md.file_content = WithoutBlock
              \/ /\ md.stage = "extract" /\ md.status = "err"
                 /\ md.file_content = mdIn.file_content

\* how the file declares a required field: "good", or the way in which the field is
\* missing or of another type
Declared(field) ==
    IF CompleteBlock THEN VariantOf(mdIn.choice, field) ELSE "missing"

FaultyFields == {field \in FieldDims : Declared(field) # "good"}

\* every value of the block is a value of some type: a value that is none is the
\* error of extract_variables and no case of a field of another type
ValuesOfSomeType ==
    /\ VariantOf(mdIn.choice, 1) # "bare"
    /\ VariantOf(mdIn.choice, ExtraDim) # "unparsable"

\* the analysis of the file, once the file was read, has come to its end
AnalysisEnded ==
    /\ md # Idle /\ md.fn = "set_variables" /\ md.stage # "read"
    /\ md.status \in {"err", "panic"} \/ md.stage = "returned"

\* C20: the analysis of a markdown file has an output only if every
\* required field is present with the right type; when one is missing or of
\* another type the analysis fails with an error naming such a field, and there
\* is neither a MarkdownContent nor a PreliminaryAnalysisOutput for the file.
C20_Original ==
    /\ (md # Idle /\ md.fn = "set_variables" /\ md.output) => FaultyFields = {}
    /\ (AnalysisEnded /\ ValuesOfSomeType /\ FaultyFields # {}) =>
          /\ md.status = "err"
          /\ \E field \in FaultyFields : md.error.key = RequiredFields[field].key
          /\ ~md.has_content /\ ~md.output

----------------------------------------------------------------------------
(* SpecHeading: create_html_file over a page that holds one element with its text,
   written as <name>text</name>, behind and in front of other markup; no fragment
   is loaded and the page holds no marker *)

\* the element names the pages are written with
HeadingNames ==
    { <<"h", "0">>, <<"h", "1">>, <<"h", "2">>, <<"h", "9">>, <<"h", "x">>, <<"p">> }

\* the texts inside the element
HeadingInner == { <<>>, <<"B", " ", "c">>, <<"1", ".", "a">> }

\* what stands in front of the element and behind it
HeadingFrames ==
    { [before |-> <<>>, after |-> <<>>],
      [before |-> <<"x">>, after |-> <<"y">>],
      [before |-> Tag(H3) \o <<"a">> \o EndTag(H3), after |-> <<>>],
      [before |-> Tag(<<"p">>), after |-> EndTag(<<"p">>)] }

NoFragments == [k \in {} |-> <<>>]

InitHeading ==
    /\ ApplyIdle /\ RewriteIdle /\ ContentIdle
    /\ \E element \in HeadingNames, text \in HeadingInner, frame \in HeadingFrames :
          /\ mdIn = [element |-> element, text |-> text, frame |-> frame,
                     page |-> frame.before \o Tag(element) \o text \o EndTag(element)
                              \o frame.after]
          /\ md = [fn |-> "create_html_file", returned |-> FALSE,
                   rw |-> create_html_file_start(
                              frame.before \o Tag(element) \o text \o EndTag(element)
                              \o frame.after,
                              EmptyVars, ContentResultNew, AssignedCell)]

\* one turn of the loop of create_html_file
HeadingStep ==
    /\ md # Idle /\ md.fn = "create_html_file" /\ ~md.returned
    /\ md.rw.status = "running"
    /\ md' = [md EXCEPT !.rw = create_html_file_step(md.rw, NoFragments, AssignedCell)]
    /\ UNCHANGED <<mdIn, applyVars, rewriteVars, contentVars>>

\* lines 307-312: the buffer is returned (or the Err of the reader, or the panic)
HeadingReturn ==
    /\ md # Idle /\ md.fn = "create_html_file" /\ ~md.returned
    /\ md.rw.status # "running"
    /\ md' = [md EXCEPT !.returned = TRUE]
    /\ UNCHANGED <<mdIn, applyVars, rewriteVars, contentVars>>

NextHeading == HeadingStep \/ HeadingReturn

SpecHeading == InitHeading /\ [][NextHeading]_vars

\* ---------------------------------------------------------------------------
\* Claims about the upgrade of one heading (SpecHeading)
\* ---------------------------------------------------------------------------

\* the names h2 to h9
HeadingLevels == { <<"h", d>> : d \in {"2", "3", "4", "5", "6", "7", "8", "9"} }

\* <hN class="header-text" id="S"><a href="#S"><span>#</span> text</a></hN>
UpgradedHeading(element, text) ==
    LET S == get_id_from_name(text)
    IN <<"<">> \o element \o <<" ", "c", "l", "a", "s", "s", "=", "\"", "h", "e", "a",
                               "d", "e", "r", "-", "t", "e", "x", "t", "\"", " ", "i",
                               "d", "=", "\"">> \o S
       \o <<"\"", ">", "<", "a", " ", "h", "r", "e", "f", "=", "\"", "#">> \o S \o << "\"",
             ">", "<", "s", "p", "a", "n", ">", "#", "<", "/", "s", "p", "a", "n", ">", " ">>
             \o text
       \o <<"<", "/", "a", ">">> \o EndTag(element)

\* the element as the claim has it in the final page
ElementAfterwards(element, text) ==
    IF element \in HeadingLevels THEN UpgradedHeading(element, text)
    ELSE Tag(element) \o text \o EndTag(element)

\* the frame of the model that holds a heading of its own
FrameAfterwards(before) ==
    IF before = Tag(H3) \o <<"a">> \o EndTag(H3) THEN UpgradedHeading(H3, <<"a">>)
    ELSE before

HeadingReturned == md # Idle /\ md.fn = "create_html_file" /\ md.returned

\* C21: the heading upgrade applies to h2 to h9 only, never to h1 or to
\* a non-heading element: the page create_html_file returns holds, for
\* <hN>text</hN> with N in 2..9, the heading with class, id and self-link around
\* its text, S = get_id_from_name(text), and every other element and every byte
\* outside the heading as it was.
C21_Original ==
    HeadingReturned =>
        /\ md.rw.status = "eof"
        /\ md.rw.buffer = FrameAfterwards(mdIn.frame.before)
                          \o ElementAfterwards(mdIn.element, mdIn.text)
                          \o mdIn.frame.after

\* ---------------------------------------------------------------------------
\* Claims about the two variants of the table of contents (SpecToc)
\* ---------------------------------------------------------------------------

\* the html holds a heading of level 2 or more: a start tag with its level that an
\* end tag of a heading follows
HasHeading(es) ==
    \E i \in 1..Len(es) :
        \/ es[i] \in {"h2", "h3", "h4"}
        \/ es[i] = "open" /\ \E j \in (i + 1)..Len(es) : es[j] \in {"h1", "h2", "h3", "h4"}

Placeholder == <<"U", "n", "f", "o", "r", "t", "u", "n", "a", "t", "e", "l", "l", "y",
                 ",", " ", "t", "h", "e", "r", "e", " ", "a", "r", "e", " ", "n", "o",
                 " ", "h", "e", "a", "d", "e", "r", "s", " ", "i", "n", " ", "t", "h",
                 "i", "s", " ", "a", "r", "t", "i", "c", "l", "e", " ", ":", "(">>

TocEnded == md # Idle /\ md.fn = "toc" /\ md.status # "running"

\* C22: generate_table_of_contents returns two variants: for an html
\* without a heading of level 2 or more both are the placeholder; otherwise the
\* desktop variant is the (Top) item followed by the mobile variant, and the
\* References item ends both exactly when link_references is set.
C22_Original ==
    TocEnded =>
        /\ md.status = "returned"
        /\ IF ~HasHeading(mdIn.elements)
           THEN md.desktop = Placeholder /\ md.table_of_contents = Placeholder
           ELSE /\ md.desktop = TopItem \o md.table_of_contents
                /\ EndsWith(md.table_of_contents, ReferencesItem) <=> mdIn.link_references
                /\ EndsWith(md.desktop, ReferencesItem) <=> mdIn.link_references

----------------------------------------------------------------------------
(* SpecRender: the process_file tasks of process_content, each rewriting the page
   of its own PreliminaryAnalysisOutput with the Context they share; the tasks take
   their turns in any order, one event of the reader at a time *)

RenderTasks == 2    \* number of process_file tasks that run side by side

\* the pages of the files: one that assigns and looks up, one whose fragment assigns,
\* and one that looks up in front of and behind an assignment
RenderPages ==
    { PageList[5], PageList[7],
      Lookup(KeyX) \o Assign(KeyY, <<"d">>) \o Lookup(KeyY) }

\* the outputs of the preliminary analysis: Vec<Arc<PreliminaryAnalysisOutput>>
RenderOutputs ==
    [1..RenderTasks -> [page : RenderPages, variables : InitialVars]]

\* mutant: the task rewrites with the variables of the PreliminaryAnalysisOutput itself
VariablesByReference(outputs, file, rw) ==
    [outputs EXCEPT ![file].variables = rw.variables]

\* line 188, let mut variables = previous_step.variables.clone(): the task stores into
\* its clone, and the outputs behind the Arcs stay as they are
VariablesCloned(outputs, file, rw) == outputs

InitRender ==
    /\ ApplyIdle /\ RewriteIdle
    /\ pc = "idle" /\ next_file = 0 /\ tasks_a = Idle /\ content_result = Idle
    /\ md_post_list = Idle /\ log = ""
    /\ \E outputs \in RenderOutputs :
          /\ mdIn = [outputs |-> outputs, templates |-> Templates, cell |-> AssignedCell]
          /\ md = [fn |-> "process_file", templates |-> Templates,
                   md_post_list |-> AssignedCell]
          /\ preliminary_outputs = outputs
          /\ tasks_b = [file \in 1..RenderTasks |->
                            [state |-> "spawned", steps |-> 0, rw |-> Idle]]

\* lines 187-189: the task clones the variables and create_html_file runs its first pass
RenderOpen(file) ==
    /\ tasks_b[file].state = "spawned"
    /\ \E rw \in {create_html_file_start(preliminary_outputs[file].page,
                                         preliminary_outputs[file].variables,
                                         ContentResultNew, md.md_post_list)} :
          /\ tasks_b' = [tasks_b EXCEPT ![file] =
                            [state |-> "running", steps |-> 0, rw |-> rw]]
          /\ preliminary_outputs' = VariablesCloned(preliminary_outputs, file, rw)
    /\ UNCHANGED <<md, mdIn, applyVars, rewriteVars, pc, next_file, tasks_a,
                   content_result, md_post_list, log>>

\* one event of the loop of create_html_file in one task
RenderStep(file) ==
    /\ tasks_b[file].state = "running" /\ tasks_b[file].rw.status = "running"
    /\ \E rw \in {create_html_file_step(tasks_b[file].rw, md.templates, md.md_post_list)} :
          /\ tasks_b' = [tasks_b EXCEPT ![file].rw = rw, ![file].steps = @ + 1]
          /\ preliminary_outputs' = VariablesCloned(preliminary_outputs, file, rw)
    /\ UNCHANGED <<md, mdIn, applyVars, rewriteVars, pc, next_file, tasks_a,
                   content_result, md_post_list, log>>

\* create_html_file has returned and the task ends
RenderDone(file) ==
    /\ tasks_b[file].state = "running" /\ tasks_b[file].rw.status # "running"
    /\ tasks_b' = [tasks_b EXCEPT ![file].state = "done"]
    /\ UNCHANGED <<md, mdIn, preliminary_outputs, applyVars, rewriteVars, pc, next_file,
                   tasks_a, content_result, md_post_list, log>>

NextRender ==
    \E file \in 1..RenderTasks : RenderOpen(file) \/ RenderStep(file) \/ RenderDone(file)

SpecRender == InitRender /\ [][NextRender]_vars

\* ---------------------------------------------------------------------------
\* Claims about the render tasks (SpecRender)
\* ---------------------------------------------------------------------------

\* create_html_file of one file run by itself, after its first pass and n events
RECURSIVE Alone(_, _)
Alone(file, n) ==
    LET StepOf(rw) == create_html_file_step(rw, mdIn.templates, mdIn.cell)
    IN IF n = 0
       THEN create_html_file_start(mdIn.outputs[file].page, mdIn.outputs[file].variables,
                                   ContentResultNew, mdIn.cell)
       ELSE ByValue(StepOf, Alone(file, n - 1))

Rendering == md # Idle /\ md.fn = "process_file"

----------------------------------------------------------------------------
(* SpecTemplate: get_template and the match of analyze_file on the extension of the
   file.  A path is the sequence of its components below "/" *)

MaxDepth == 2       \* number of directories between content/ and the file

TemplateFile == "_template.html"

\* args.project, and a file system around it: the directory above the project, the
\* project with its content directory, two directories a/b below, and a sibling c
ProjectDirectory == <<"r", "p">>
ContentDirectory == ProjectDirectory \o <<"content">>
DirectoryChain == <<"a", "b", "d", "e">>
AllDirectories ==
    { <<>>, <<"r">>, ProjectDirectory, ContentDirectory, ContentDirectory \o <<"c">> }
    \cup { ContentDirectory \o SubSeq(DirectoryChain, 1, n) : n \in 1..MaxDepth }

\* the directory a collected file lies in, by its depth below content/
FileDirectory(depth) == ContentDirectory \o SubSeq(DirectoryChain, 1, depth)

\* Path::parent: None for the root
Parent(path) ==
    IF path = <<>> THEN [some |-> FALSE, path |-> <<>>]
    ELSE [some |-> TRUE, path |-> SubSeq(path, 1, Len(path) - 1)]

\* mutant: the loop ends when the parent is the project directory
ParentAtProject(template_path, project_directory) ==
    Parent(template_path).path = project_directory

\* line 61: if template_path == project_directory { break; }
AtProject(template_path, project_directory) == template_path = project_directory

\* one turn of the loop of get_template
get_template_step(g, templates) ==
    LET parent == Parent(g.template_path)
    IN IF ~parent.some \/ AtProject(g.template_path, ProjectDirectory)
       THEN [g EXCEPT !.status = IF g.template_found THEN "ok" ELSE "err"]
       ELSE IF parent.path \in templates
       THEN [g EXCEPT !.template_path = parent.path \o <<TemplateFile>>,
                      !.template_found = TRUE, !.status = "ok"]
       ELSE [g EXCEPT !.template_path = parent.path]

InitTemplate ==
    /\ ApplyIdle /\ RewriteIdle /\ ContentIdle
    /\ \E depth \in 0..MaxDepth, extension \in {"md", "html"},
          templates \in SUBSET AllDirectories, set_variables \in {"ok", "err"} :
          /\ mdIn = [path |-> FileDirectory(depth) \o <<"f." \o extension>>,
                     extension |-> extension, templates |-> templates,
                     set_variables |-> set_variables]
          /\ md = [fn |-> "get_template", status |-> "called", template_found |-> FALSE,
                   template_path |-> FileDirectory(depth) \o <<"f." \o extension>>,
                   analysis |-> "running"]

\* analyze_file, lines 35-45: a markdown file awaits set_variables and then polls
\* get_template, which a failure of set_variables leaves unpolled; another file is
\* its own template
MatchExtension ==
    /\ md # Idle /\ md.fn = "get_template" /\ md.status = "called"
    /\ md' = IF mdIn.extension # "md"
             THEN [md EXCEPT !.status = "ok", !.template_path = mdIn.path]
             ELSE IF mdIn.set_variables = "err"
             THEN [md EXCEPT !.status = "unpolled", !.analysis = "err"]
             ELSE [md EXCEPT !.status = "running"]
    /\ UNCHANGED <<mdIn, applyVars, rewriteVars, contentVars>>

\* the while loop of get_template
TemplateStep ==
    /\ md # Idle /\ md.fn = "get_template" /\ md.status = "running"
    /\ md' = get_template_step(md, mdIn.templates)
    /\ UNCHANGED <<mdIn, applyVars, rewriteVars, contentVars>>

\* analyze_file, lines 42-52: template_path.await?, then the output
TemplateAwaited ==
    /\ md # Idle /\ md.fn = "get_template" /\ md.status \in {"ok", "err"}
    /\ md.analysis = "running"
    /\ md' = [md EXCEPT !.analysis = IF md.status = "err" THEN "err" ELSE "ok"]
    /\ UNCHANGED <<mdIn, applyVars, rewriteVars, contentVars>>

NextTemplate == MatchExtension \/ TemplateStep \/ TemplateAwaited

SpecTemplate == InitTemplate /\ [][NextTemplate]_vars

\* ---------------------------------------------------------------------------
\* Claims about get_template (SpecTemplate)
\* ---------------------------------------------------------------------------

\* the directories from the one of the file up to the project directory
ChainOf(path) ==
    { SubSeq(path, 1, n) : n \in Len(ProjectDirectory)..(Len(path) - 1) }

\* those of them that hold a _template.html
WithTemplate == ChainOf(mdIn.path) \cap mdIn.templates

Nearest(directories) ==
    CHOOSE d \in directories : \A e \in directories : Len(e) <= Len(d)

TemplateReturned == md # Idle /\ md.fn = "get_template" /\ md.status \in {"ok", "err"}

\* C24: for a markdown file get_template returns the _template.html
\* of the nearest directory, from the directory of the file up to and including
\* the project directory, that holds one; it returns an error, and the analysis
\* of the file fails, exactly when none of them holds one; the template of another
\* file is the file itself.
C24_NearestTemplate ==
    TemplateReturned =>
        /\ mdIn.extension # "md" => md.status = "ok" /\ md.template_path = mdIn.path
        /\ mdIn.extension = "md" =>
              /\ md.status = "err" <=> WithTemplate = {}
              /\ md.status = "ok" =>
                    md.template_path = Nearest(WithTemplate) \o <<TemplateFile>>
              /\ (md.status = "err" /\ md.analysis # "running") => md.analysis = "err"

\* a file two directories deep whose only template on the chain lies in the project
\* directory, with further templates above the project and beside the chain
C24_Witness ==
    /\ TemplateReturned /\ mdIn.extension = "md" /\ md.status = "ok"
    /\ Len(mdIn.path) = Len(ContentDirectory) + 3
    /\ WithTemplate = {ProjectDirectory}
    /\ <<"r">> \in mdIn.templates /\ ContentDirectory \o <<"c">> \in mdIn.templates
    /\ md.template_path = ProjectDirectory \o <<TemplateFile>>
    /\ md.analysis = "ok"

----------------------------------------------------------------------------
(* SpecLinks: the table of contents of a markdown body and the rewrite of the page
   that holds the body, side by side: generate_table_of_contents runs on the rendered
   body in md, create_html_file on the page in pf *)

MaxLinked == 2      \* number of headings of the body

LinkedLevels == {2, 3, 9}
LinkedTexts == { <<"B", " ", "c">>, <<"1", ".", "a">>, <<"a", "_", "b">> }
LinkedBetween == { <<>>, Tag(<<"p">>) \o <<"x">> \o EndTag(<<"p">>) }
LinkedHeadings ==
    UNION { [1..n -> [level : LinkedLevels, text : LinkedTexts]] : n \in 1..MaxLinked }

RECURSIVE BodyHtml(_, _, _)
BodyHtml(headings, between, i) ==
    IF i > Len(headings) THEN <<>>
    ELSE Heading(headings[i].level, headings[i].text) \o between
         \o BodyHtml(headings, between, i + 1)

\* the template of the file: the body stands where {{md_content}} is looked up
ContentKey == <<"m", "d", "_", "c", "o", "n", "t", "e", "n", "t">>
LinkedPage == Tag(<<"m">>) \o Lookup(ContentKey) \o EndTag(<<"m">>)

InitLinks ==
    /\ ApplyIdle /\ ContentIdle
    /\ \E headings \in LinkedHeadings, between \in LinkedBetween,
          link_references \in BOOLEAN :
          /\ mdIn = [fn |-> "toc", headings |-> headings,
                     html |-> BodyHtml(headings, between, 1),
                     link_references |-> link_references]
          /\ md = TocStart(BodyHtml(headings, between, 1), link_references)
          /\ pfIn = [page |-> LinkedPage]
          /\ pf = create_html_file_start(
                      LinkedPage, (ContentKey :> BodyHtml(headings, between, 1)),
                      ContentResultNew, AssignedCell)
          /\ pfOut = Idle

\* one turn of the loop of create_html_file on the page; process_file is spawned
\* when the analysis of the file, and with it the table of contents, has ended
LinksRewriteStep ==
    /\ md # Idle /\ md.fn = "toc" /\ md.status # "running"
    /\ pf # Idle /\ pf.status = "running"
    /\ pf' = create_html_file_step(pf, NoFragments, AssignedCell)
    /\ UNCHANGED <<pfIn, pfOut, md, mdIn, applyVars, contentVars>>

NextLinks == TocStep \/ TocReturn \/ LinksRewriteStep

SpecLinks == InitLinks /\ [][NextLinks]_vars

\* ---------------------------------------------------------------------------
\* Claims about the anchors of the table of contents (SpecLinks)
\* ---------------------------------------------------------------------------

Quote == <<"\"">>
AnchorPrefix == <<"<", "a", " ", "h", "r", "e", "f", "=", "\"", "#">>
IdPrefix == <<" ", "i", "d", "=", "\"">>

\* the values that follow the prefix in the text, up to the closing quote, in order
RECURSIVE ValuesBehind(_, _, _)
ValuesBehind(prefix, text, from) ==
    LET position == Find(prefix, text, from, Len(text))
    IN IF position = -1 THEN <<>>
       ELSE LET start == from + position + Len(prefix)
                close == Find(Quote, text, start, Len(text))
            IN IF close = -1 THEN <<>>
               ELSE <<Slice(text, start, start + close)>>
                    \o ValuesBehind(prefix, text, start + close)

\* the anchors of the headings in the list: all but the anchor of the References item
TocAnchors ==
    LET anchors == ValuesBehind(AnchorPrefix, md.table_of_contents, 0)
    IN IF mdIn.link_references /\ anchors # <<>>
       THEN SubSeq(anchors, 1, Len(anchors) - 1)
       ELSE anchors

PageIds == ValuesBehind(IdPrefix, pf.buffer, 0)

LinksEnded ==
    /\ md # Idle /\ md.fn = "toc" /\ md.status # "running"
    /\ pf # Idle /\ pf.status # "running"

\* C25: for a body of headings of level 2 to 9 with plain text, the
\* anchors of the table of contents are, heading by heading, the id attributes
\* the rewrite gives the headings of the page, both get_id_from_name of the text of
\* the heading.
C25_LinksResolve ==
    LinksEnded =>
        /\ md.status = "returned" /\ pf.status = "eof"
        /\ Len(TocAnchors) = Len(mdIn.headings)
        /\ TocAnchors = PageIds
        /\ \A i \in 1..Len(mdIn.headings) :
              TocAnchors[i] = get_id_from_name(mdIn.headings[i].text)

\* two headings of different levels and texts, both listed and both upgraded
C25_Witness ==
    /\ LinksEnded /\ Len(mdIn.headings) = 2
    /\ mdIn.headings[1].level = 9 /\ mdIn.headings[2].level = 3
    /\ mdIn.headings[1].text = <<"1", ".", "a">> /\ mdIn.headings[2].text = <<"B", " ", "c">>
    /\ PageIds = << <<"a">>, <<"b", "-", "c">> >>
    /\ TocAnchors = PageIds
    /\ pf.upgraded = 2

----------------------------------------------------------------------------
(* SpecPersist: the rewrite of a page that assigns a variable inline and includes
   fragments that look the variable up *)

PersistKeys == {KeyX, MdPostListKey}
PersistValues == {Hello, <<"c">>}

\* the pages: the assignment in front of a fragment, with a heading between them,
\* behind the fragment, and behind a lookup of an unknown key
PersistPages(k, v) ==
    { Assign(k, v) \o Tag(<<"t">>),
      Assign(k, v) \o Tag(H2) \o <<"a">> \o EndTag(H2) \o Tag(<<"t">>),
      Tag(<<"t">>) \o Assign(k, v),
      Lookup(KeyZ) \o Assign(k, v) \o Tag(<<"t">>) }

\* the repositories: a fragment that looks the key up, a fragment that includes one
\* that does, and a fragment that assigns the key anew before it looks it up
PersistRepositories(k) ==
    { <<"t">> :> Lookup(k),
      (<<"t">> :> (<<"A">> \o Tag(<<"u">>))) @@ (<<"u">> :> (Lookup(k) \o <<"B">>)),
      <<"t">> :> (Assign(k, <<"w">>) \o Lookup(k)) }

InitPersist ==
    /\ ApplyIdle /\ ContentIdle /\ MarkdownIdle
    /\ \E k \in PersistKeys, v \in PersistValues :
       \E page \in PersistPages(k, v), templates \in PersistRepositories(k) :
          /\ pfIn = [page |-> page, key |-> k, value |-> v, templates |-> templates,
                     cell |-> AssignedCell]
          /\ pf = [status |-> "opening"]
          /\ pfOut = Idle

\* create_html_file reads the page and runs the first substitution pass
PersistOpen ==
    /\ pf = [status |-> "opening"]
    /\ pf' = create_html_file_start(pfIn.page, EmptyVars, ContentResultNew, pfIn.cell)
    /\ UNCHANGED <<pfIn, pfOut, mdVars, applyVars, contentVars>>

\* one turn of the loop of create_html_file
PersistStep ==
    /\ pf # Idle /\ pf.status = "running"
    /\ pf' = create_html_file_step(pf, pfIn.templates, pfIn.cell)
    /\ UNCHANGED <<pfIn, pfOut, mdVars, applyVars, contentVars>>

NextPersist == PersistOpen \/ PersistStep

SpecPersist == InitPersist /\ [][NextPersist]_vars

\* ---------------------------------------------------------------------------
\* Claims about the variables across the restarts (SpecPersist)
\* ---------------------------------------------------------------------------

\* the event the next turn of the loop reads, and the fragment it includes
PersistEvent == read_event_into(pf.buffer, pf.pos)
PersistFragment ==
    IF PersistEvent.kind = "start"
    THEN TemplateGet(pfIn.templates, name(PersistEvent.content))
    ELSE [some |-> FALSE, data |-> <<>>]

\* where the included fragment begins, and the buffer the pass of this turn starts on
FragmentStart == PersistEvent.next - Len(PersistEvent.content) - 2
PassBuffer ==
    IF PersistFragment.some
    THEN ReplaceRange(pf.buffer, FragmentStart, PersistEvent.next, PersistFragment.data)
    ELSE pf.buffer

\* every key of the store is still in it
Kept == \A k \in DOMAIN pf.variables : k \in DOMAIN pf'.variables

\* a key gets a value only from an assignment the buffer of the pass holds
OnlyAssigned ==
    \A k \in DOMAIN pf'.variables :
        (k \notin DOMAIN pf.variables \/ pf'.variables[k] # pf.variables[k])
            => Find(LB \o k \o Colon, PassBuffer, 0, Len(PassBuffer)) # -1

\* the first marker of the pass is a lookup of a stored key inside the fragment
FirstMarker == Find(LB, PassBuffer, 0, Len(PassBuffer))
LooksUpInFragment(k) ==
    /\ PersistFragment.some
    /\ k \in DOMAIN pf.variables
    /\ FirstMarker # -1 /\ FirstMarker >= FragmentStart
    /\ FirstMarker + Len(Lookup(k)) <= FragmentStart + Len(PersistFragment.data)
    /\ Slice(PassBuffer, FirstMarker, FirstMarker + Len(Lookup(k))) = Lookup(k)

\* the lookup has become the value, the bytes in front of it are as they were
ResolvedTo(value) ==
    /\ pf'.status = "running"
    /\ Len(pf'.buffer) >= FirstMarker + Len(value)
    /\ Slice(pf'.buffer, 0, FirstMarker + Len(value))
           = Slice(PassBuffer, 0, FirstMarker) \o value

Restarted == pf # Idle /\ pf.status = "running" /\ pf'.status # "opening"

----------------------------------------------------------------------------
\* Claims about the backlinks and the footnote items (SpecCite)

BacklinkLabel == <<"<", "a", " ", "h", "r", "e", "f", "=", "\"", "#", "c", "i", "t",
                   "e", "-", "n", "o", "t", "e", "-">>
ItemLabel == <<"<", "l", "i", " ", "i", "d", "=", "\"", "c", "i", "t", "e", "-", "n",
               "o", "t", "e", "-">>

\* the numbers of the backlinks of the document
BacklinkNumbers(c) == NumbersBehind(BacklinkLabel, c.html, 0)

\* the places of the list where the item of number n is opened
ItemsOf(c, n) ==
    {i \in 0..(Len(c.cite_note_html) - Len(ItemLabel)) :
        /\ Slice(c.cite_note_html, i, i + Len(ItemLabel)) = ItemLabel
        /\ ReadNumber(c.cite_note_html, i + Len(ItemLabel), 0) = n}

\* the item opened at i is closed before another item is opened
Complete(c, i) ==
    LET behind == i + Len(ItemLabel)
        close == Find(LiClose, c.cite_note_html, behind, Len(c.cite_note_html))
        open == Find(LiOpen, c.cite_note_html, behind, Len(c.cite_note_html))
        another == Find(<<"<", "l", "i", " ">>, c.cite_note_html, behind,
                        Len(c.cite_note_html))
    IN close # -1 /\ (another = -1 \/ close < another) /\ (open = -1 \/ close < open)

\* the kinds of CiteSegments that generate_cite_note_link answers with Err
FailingKinds == {4, 5}

\* C27 as claimed: when generate_cite_notes has returned, the document holds
\* a backlink to #cite-note-N exactly when the list holds exactly one complete item
\* of number N; and a marker that fails to render adds no item and no part of an
\* item to the list and stays in the document as it was.
C27_Original ==
    CiteReturned =>
        /\ \A n \in 1..(MaxCites + 1) :
              (n \in Range(BacklinkNumbers(md)))
                  <=> (Cardinality(ItemsOf(md, n)) = 1
                       /\ \A i \in ItemsOf(md, n) : Complete(md, i))
        /\ Occurrences(ItemLabel, md.cite_note_html)
               = Occurrences(LiClose, md.cite_note_html)
        /\ Range(mdIn.kinds) \subseteq (AcceptedKinds \cup FailingKinds) =>
              Occurrences(CITE_NOTE, md.html)
                  = Cardinality({i \in 1..Len(mdIn.kinds) : mdIn.kinds[i] \in FailingKinds})

----------------------------------------------------------------------------
\* Claims about the end of a substitution pass (SpecApply)

\* the bytes apply has still to scan
Unscanned(st) == st.end - st.start

\* the iteration that starts in st finds "{{" and no "}}" behind it, at once or while
\* it looks for the end of a nested assignment value
MissesEnd(st) ==
    LET rs == st.start + FindOpen(st.data, st.start, st.end)
        e == Find(RB, st.data, rs, st.end)
        key == Slice(st.data, rs + 2, rs + e)
        set == Find(Colon, key, 0, Len(key))
    IN \/ IterKind(st) = "no_end"
       \/ /\ IterKind(st) = "assign"
          /\ NestedEnd(st.data, rs + set + 3, rs + e + 2, st.end) = -1

\* C28: every iteration of a substitution pass deletes an assignment, or
\* replaces a lookup and starts behind the inserted value, or returns; while the
\* pass runs the range stays inside the buffer and the number of bytes still to scan
\* gets smaller with every iteration, so the pass ends; an opening "{{" without its
\* closing "}}" in the range, also within a nested assignment value, records one
\* error and returns with the buffer and the variables as they were.
C28_PassTerminates ==
    [][(ap.status = "running" /\ apIn' = apIn) =>
        LET rs == ap.start + FindOpen(ap.data, ap.start, ap.end)
        IN /\ ap'.status \in {"running", "returned"}
           /\ 0 <= ap'.start /\ ap'.start <= ap'.end /\ ap'.end <= Len(ap'.data)
           /\ ap'.status = "running" =>
                 /\ Unscanned(ap') < Unscanned(ap)
                 /\ ap'.result = ap.result
                 /\ \/ /\ IterKind(ap) = "assign"
                       /\ Len(ap'.data) < Len(ap.data)
                       /\ Slice(ap'.data, 0, rs) = Slice(ap.data, 0, rs)
                       /\ ap'.start = rs
                    \/ /\ IterKind(ap) = "lookup"
                       /\ \E value \in {ap.variables[k] : k \in DOMAIN ap.variables}
                                     \cup {apIn.cell.value} :
                             /\ ap'.start = rs + Len(value)
                             /\ Slice(ap'.data, rs, ap'.start) = value
           /\ ap'.status = "returned" =>
                 /\ ap'.data = ap.data /\ ap'.variables = ap.variables
                 /\ Len(ap'.result.errors) <= Len(ap.result.errors) + 1
                 /\ IterKind(ap) = "none" <=> ap'.result = ap.result
           /\ MissesEnd(ap) =>
                 /\ ap'.status = "returned"
                 /\ ap'.data = ap.data /\ ap'.variables = ap.variables
                 /\ ap'.result = PushError(ap.result, ErrNoEnd(rs))
      ]_vars

\* the pass over {{:{{x}} has ended: the value of the assignment opens a marker that
\* is never closed, one error is recorded and the buffer is as it was
C28_Witness ==
    /\ apIn # Idle /\ apIn.pass = 1 /\ ap.status = "returned"
    /\ apIn.segs = <<Seg("raw", <<>>, LB), Seg("raw", <<>>, Colon), Seg("lookup", KeyX, <<>>)>>
    /\ ap.data = apIn.data /\ ap.variables = apIn.variables
    /\ ap.result = PushError(apIn.result, ErrNoEnd(0))
    /\ apOp = <<"assign">>

----------------------------------------------------------------------------
(* SpecDeploy: the handler of POST /api/admin/deploy/site, run for several requests
   side by side.  md holds the DeployState and the build, mdIn the bodies of the
   requests, tasks_a the handlers and tasks_b the tasks the handlers spawn *)

MaxRequests == 3    \* number of POST requests

Requests == 1..MaxRequests

\* a handler that has not been called yet
NoRequest == [at |-> "unsent", response |-> "none", flag_used |-> FALSE, pulled |-> FALSE]

\* initialize: the key is read, both flags are false; debug_assertions is the build
InitDeploy ==
    /\ ApplyIdle /\ RewriteIdle
    /\ pc = "idle" /\ next_file = 0 /\ preliminary_outputs = <<>>
    /\ content_result = Idle /\ md_post_list = Idle /\ log = ""
    /\ \E debug_assertions \in BOOLEAN, bodies \in [Requests -> {"key", "other"}] :
          /\ md = [fn |-> "deploy", site_deployed |-> FALSE,
                   debug_assertions |-> debug_assertions]
          /\ mdIn = [bodies |-> bodies]
    /\ tasks_a = [r \in Requests |-> NoRequest]
    /\ tasks_b = [r \in Requests |-> "none"]

DeployUnchanged == <<applyVars, rewriteVars, pc, next_file, preliminary_outputs,
                     content_result, md_post_list, log, mdIn>>

\* a client posts request r
SitePost(r) ==
    /\ tasks_a[r].at = "unsent"
    /\ tasks_a' = [tasks_a EXCEPT ![r].at = "key"]
    /\ UNCHANGED <<md, tasks_b, DeployUnchanged>>

\* lines 53-55: if body != state.api.admin.deploy.key
SiteCheckKey(r) ==
    /\ tasks_a[r].at = "key"
    /\ tasks_a' = IF mdIn.bodies[r] # "key"
                  THEN [tasks_a EXCEPT ![r].at = "done", ![r].response = "FORBIDDEN"]
                  ELSE [tasks_a EXCEPT ![r].at = "swap"]
    /\ UNCHANGED <<md, tasks_b, DeployUnchanged>>

\* mutant: the value the swap returns is taken for false
SiteNeverSwapped(deploy) == FALSE

\* lines 57-62: site_deployed.swap(true, Ordering::Relaxed), the value before it
SiteSwapped(deploy) == deploy.site_deployed

\* lines 57-65: the request that finds the flag set is turned away

SiteSwap(r) ==
    /\ tasks_a[r].at = "swap"
    /\ md' = [md EXCEPT !.site_deployed = TRUE]
    /\ tasks_a' = IF SiteSwapped(md)
                  THEN [tasks_a EXCEPT ![r].at = "done", ![r].flag_used = TRUE,
                                       ![r].response = "Site already deploying"]
                  ELSE [tasks_a EXCEPT ![r].at = "deploy_site", ![r].flag_used = TRUE]
    /\ UNCHANGED <<tasks_b, DeployUnchanged>>

\* deploy_site, lines 109-126: git pull ends with success, or the spawn, the wait or
\* the exit status make it Err
DeploySite(r) ==
    /\ tasks_a[r].at = "deploy_site"
    /\ \E pulled \in {"Ok", "Err"} :
          tasks_a' = [tasks_a EXCEPT ![r].at = pulled, ![r].pulled = TRUE]
    /\ UNCHANGED <<md, tasks_b, DeployUnchanged>>

\* lines 68-91: Ok(()) spawns the task that runs the generator, or in a debug build
\* stores false at once; the response is sent
SiteDeployed(r) ==
    /\ tasks_a[r].at = "Ok"
    /\ tasks_a' = [tasks_a EXCEPT ![r].at = "done",
                                  ![r].response = "Site deployed successfully"]
    /\ IF md.debug_assertions
       THEN /\ md' = [md EXCEPT !.site_deployed = FALSE]
            /\ UNCHANGED tasks_b
       ELSE /\ tasks_b' = [tasks_b EXCEPT ![r] = "spawned"]
            /\ UNCHANGED md
    /\ UNCHANGED DeployUnchanged

\* lines 93-104: Err(e) stores false and answers INTERNAL_SERVER_ERROR
SiteFailed(r) ==
    /\ tasks_a[r].at = "Err"
    /\ tasks_a' = [tasks_a EXCEPT ![r].at = "done",
                                  ![r].response = "Site deploying failed"]
    /\ md' = [md EXCEPT !.site_deployed = FALSE]
    /\ UNCHANGED <<tasks_b, DeployUnchanged>>

\* run_generator_impl, main.rs:143-179, in the spawned task: the generator runs and
\* exits with success or without, or the process cannot be started or waited for
\* and the expect panics
RunGenerator(r) ==
    /\ tasks_b[r] = "spawned"
    /\ \E outcome \in {"success", "failure", "panic"} :
          tasks_b' = [tasks_b EXCEPT ![r] = outcome]
    /\ UNCHANGED <<md, tasks_a, DeployUnchanged>>

\* lines 72-78: behind run_generator the task stores false
SiteReleased(r) ==
    /\ tasks_b[r] \in {"success", "failure"}
    /\ tasks_b' = [tasks_b EXCEPT ![r] = "released"]
    /\ md' = [md EXCEPT !.site_deployed = FALSE]
    /\ UNCHANGED <<tasks_a, DeployUnchanged>>

\* the steps of the server, without the clients
ServerStep ==
    \E r \in Requests :
        \/ SiteCheckKey(r) \/ SiteSwap(r) \/ DeploySite(r) \/ SiteDeployed(r)
        \/ SiteFailed(r) \/ RunGenerator(r) \/ SiteReleased(r)

NextDeploy == (\E r \in Requests : SitePost(r)) \/ ServerStep

SpecDeploy == InitDeploy /\ [][NextDeploy]_vars

\* the runtime goes on with a handler or a task that can take a step, and the child
\* processes end
SpecDeployFair == SpecDeploy /\ WF_vars(ServerStep)

\* ---------------------------------------------------------------------------
\* Claims about the deployment of the site (SpecDeploy, SpecDeployFair)
\* ---------------------------------------------------------------------------

\* request r has passed the flag and not given it back
Deploying(r) ==
    \/ tasks_a[r].at \in {"deploy_site", "Ok", "Err"}
    \/ tasks_b[r] \in {"spawned", "success", "failure", "panic"}

\* C29: at most one request at a time is past the site_deployed flag, and
\* the flag is set while it is; a request answered `Site already deploying` has
\* started no pull and no generator; a request with another body than the key is
\* answered FORBIDDEN, has not touched the flag and has started nothing, and no
\* request with the key is answered FORBIDDEN.
C29_MutualExclusion ==
    /\ Cardinality({r \in Requests : Deploying(r)}) <= 1
    /\ (\E r \in Requests : Deploying(r)) => md.site_deployed
    /\ \A r \in Requests :
          /\ tasks_a[r].response = "Site already deploying" =>
                ~tasks_a[r].pulled /\ tasks_b[r] = "none"
          /\ mdIn.bodies[r] # "key" =>
                /\ ~tasks_a[r].flag_used /\ ~tasks_a[r].pulled /\ tasks_b[r] = "none"
                /\ tasks_a[r].response \in {"none", "FORBIDDEN"}
          /\ (mdIn.bodies[r] # "key" /\ tasks_a[r].at = "done") =>
                tasks_a[r].response = "FORBIDDEN"
          /\ mdIn.bodies[r] = "key" => tasks_a[r].response # "FORBIDDEN"

\* three requests are posted: one runs the generator, one with the key is turned
\* away meanwhile, and one with another body is forbidden
C29_Witness ==
    /\ \E r \in Requests : tasks_b[r] = "spawned" /\ tasks_a[r].pulled
    /\ \E r \in Requests : tasks_a[r].response = "Site already deploying"
    /\ \E r \in Requests : tasks_a[r].response = "FORBIDDEN"
    /\ md.site_deployed

\* C30 as claimed: whenever the flag is set it is false again later.
C30_Original == (md.site_deployed) ~> (~md.site_deployed)

====
